---- MODULE Spec2Model ----
(***************************************************************************)
(* Rolling Data Scramble dashboard: the evaluation engine of               *)
(* src/src/mapaction_rds_dashboard/app.py as a state machine.              *)
(*                                                                         *)
(* One behaviour of Spec is one call of run() over one snapshot of the     *)
(* Crash Move Folders named by the configuration.  Each stage of run() is  *)
(* one action; an exception no stage catches ends the run ("aborted").     *)
(*                                                                         *)
(* Strings of the program that the program takes apart (layer ids, split   *)
(* on "-"; iteration file names, compared by max()) are sequences of       *)
(* one-character strings.  Python dicts are kept with their insertion      *)
(* order: [keys |-> sequence of keys, map |-> function on those keys].     *)
(***************************************************************************)
EXTENDS Integers, Sequences, FiniteSets, TLC

VARIABLES
    fs,                 \* the configured operation roots, in configuration order
    pc,                 \* the stage run() executes next, "done" or "aborted"
    error,              \* the exception that ended the run, or "none"
    log,                \* logging.warning entries, in order
    operations,         \* List[Operation]
    operation_layers,   \* Dict[str, List[MapLayer]]
    layer_source,       \* per parsed operation: which branch filled its entry
    evaluations,        \* List[Evaluation]
    summary,            \* summarise_evaluations' return value
    export_data,        \* prepare_export's return value
    export_file,        \* the content of export.json
    sheets,             \* the data frames uploaded to the spreadsheet
    executed            \* the solids of the dagster pipeline that have executed;
                        \* in SpecEvaluateCalls, the evaluations evaluated again

vars == <<fs, pc, error, log, operations, operation_layers, layer_source,
          evaluations, summary, export_data, export_file, sheets, executed>>

\* ------------------------------------------------------------------ bounds

\* Number of entries of config["rds_operations_cmf_paths"].
NumPaths == 2
\* Longest list of classified errors of a layer in SpecEvaluate.
MaxErrors == 3
\* Longest list of evaluations handed to summarise_evaluations in SpecSummarise.
MaxEvals == 2
\* Longest list of error messages of a layer in SpecMapLayer.
MaxMessages == 2

\* ------------------------------------------------------------ generic helpers

None == [none |-> TRUE]

Range(s) == {s[i] : i \in 1..Len(s)}

SeqsUpTo(S, n) == UNION {[1..k -> S] : k \in 0..n}

RECURSIVE SeqSum(_)
SeqSum(s) == IF s = <<>> THEN 0 ELSE Head(s) + SeqSum(Tail(s))

\* Python dict, insertion ordered.
DictEmpty == [keys |-> <<>>, map |-> <<>>]
DictHas(d, k) == k \in Range(d.keys)
DictGet(d, k) == d.map[k]
DictSet(d, k, v) ==
    IF DictHas(d, k)
    THEN [keys |-> d.keys, map |-> [d.map EXCEPT ![k] = v]]
    ELSE [keys |-> Append(d.keys, k),
          map  |-> [x \in Range(d.keys) \cup {k} |-> IF x = k THEN v ELSE d.map[x]]]

\* str.split(sep): the tokens of s between occurrences of sep (never empty list).
RECURSIVE SplitFrom(_, _, _)
SplitFrom(s, sep, cur) ==
    IF s = <<>> THEN <<cur>>
    ELSE IF Head(s) = sep THEN <<cur>> \o SplitFrom(Tail(s), sep, <<>>)
    ELSE SplitFrom(Tail(s), sep, Append(cur, Head(s)))

Split(s, sep) == SplitFrom(s, sep, <<>>)

\* Order of one-character strings as Python orders them (code points).
CodePoint(c) ==
    CASE c = "-" -> 45 [] c = "." -> 46 [] c = "j" -> 106
      [] c = "0" -> 48 [] c = "1" -> 49 [] c = "2" -> 50 [] c = "9" -> 57
      [] c = "a" -> 97 [] c = "b" -> 98 [] c = "c" -> 99 [] c = "d" -> 100
      [] c = "e" -> 101 [] c = "h" -> 104 [] c = "l" -> 108 [] c = "m" -> 109
      [] c = "n" -> 110 [] c = "o" -> 111 [] c = "p" -> 112 [] c = "r" -> 114
      [] c = "s" -> 115 [] c = "t" -> 116 [] c = "v" -> 118 [] c = "y" -> 121
      [] OTHER -> 0

\* s < t for Python strings.
RECURSIVE StrLess(_, _)
StrLess(s, t) ==
    IF t = <<>> THEN FALSE
    ELSE IF s = <<>> THEN TRUE
    ELSE IF Head(s) = Head(t) THEN StrLess(Tail(s), Tail(t))
    ELSE CodePoint(Head(s)) < CodePoint(Head(t))

\* ------------------------------------------------------------------ enums

\* EvaluationResult: the member names; auto() numbers them in declaration order.
EvaluationResult == {"NOT_EVALUATED", "PASS", "PASS_WITH_WARNINGS", "FAIL", "ERROR"}

ResultValueSwapped(r) ==
    CASE r = "NOT_EVALUATED" -> 1
      [] r = "PASS" -> 2
      [] r = "FAIL" -> 3
      [] r = "PASS_WITH_WARNINGS" -> 4
      [] r = "ERROR" -> 5

\* EvaluationResult.<r>.value
ResultValue(r) ==
    CASE r = "NOT_EVALUATED" -> 1
      [] r = "PASS" -> 2
      [] r = "PASS_WITH_WARNINGS" -> 3
      [] r = "FAIL" -> 4
      [] r = "ERROR" -> 5

\* MapChefError: member name -> value (the message MapChef writes).
MapChefErrorValue ==
    [LAYER_DATASOURCE_NONE     |-> "Unable to find dataset for this layer",
     LAYER_DATASOURCE_MULTIPLE |-> "Found multiple datasets which match this layer",
     LAYER_SCHEMA_INVALID      |-> "Data schema check failed",
     MAPCHEF_OUTPUT_MISSING    |-> "MAPCHEF_OUTPUT_MISSING"]

MapChefError == DOMAIN MapChefErrorValue

KnownMessages == {MapChefErrorValue[e] : e \in MapChefError}

\* MapChefError(message): the member whose value is the message; ValueError when
\* there is none (modelled by the caller testing message \in KnownMessages).
MapChefErrorOf(message) == CHOOSE e \in MapChefError : MapChefErrorValue[e] = message

\* ------------------------------------------------------------------ MapLayer

\* The members come out in the reverse order of the messages.
ParseErrorMessagesReversed(error_messages) ==
    [i \in 1..Len(error_messages) |->
        MapChefErrorOf(error_messages[Len(error_messages) + 1 - i])]

\* MapLayer._parse_error_messages: one member per message, in order.
ParseErrorMessages(error_messages) ==
    [i \in 1..Len(error_messages) |-> MapChefErrorOf(error_messages[i])]

\* Whether MapLayer(layer_id, error_messages) raises ValueError.
MapLayerRaises(error_messages) ==
    \E i \in 1..Len(error_messages) : error_messages[i] \notin KnownMessages

\* MapLayer.__init__ (when it does not raise).
MapLayer(layer_id, error_messages) ==
    [layer_id |-> layer_id, errors |-> ParseErrorMessages(error_messages)]

\* ------------------------------------------------------------------ Evaluation

\* A missing data source is graded ERROR.
ErrorMappingWithError ==
    [MAPCHEF_OUTPUT_MISSING    |-> "FAIL",
     LAYER_DATASOURCE_NONE     |-> "ERROR",
     LAYER_DATASOURCE_MULTIPLE |-> "PASS_WITH_WARNINGS",
     LAYER_SCHEMA_INVALID      |-> "PASS_WITH_WARNINGS"]

\* Evaluation.error_mapping
ErrorMapping ==
    [MAPCHEF_OUTPUT_MISSING    |-> "FAIL",
     LAYER_DATASOURCE_NONE     |-> "FAIL",
     LAYER_DATASOURCE_MULTIPLE |-> "PASS_WITH_WARNINGS",
     LAYER_SCHEMA_INVALID      |-> "PASS_WITH_WARNINGS"]

\* Evaluation.__init__
Evaluation(operation_id, layer) ==
    [operation_id |-> operation_id, layer |-> layer, result |-> "NOT_EVALUATED"]

\* The loop of Evaluation.evaluate over the errors, from the result so far.
RECURSIVE EvaluateErrors(_, _)
EvaluateErrors(errors, result) ==
    IF errors = <<>> THEN result
    ELSE LET r == ErrorMapping[Head(errors)]
         IN EvaluateErrors(Tail(errors),
                           IF ResultValue(r) > ResultValue(result) THEN r ELSE result)

\* The first error decides and the later ones are ignored.
EvaluateFirstOnly(e) ==
    [e EXCEPT !.result =
        IF Len(e.layer.errors) = 0 THEN "PASS" ELSE ErrorMapping[Head(e.layer.errors)]]

\* A call on an evaluation that already has a result marks it ERROR.
EvaluateOnce(e) ==
    [e EXCEPT !.result =
        IF e.result # "NOT_EVALUATED" THEN "ERROR"
        ELSE EvaluateErrors(e.layer.errors,
                            IF Len(e.layer.errors) = 0 THEN "PASS" ELSE e.result)]

\* Evaluation.evaluate: the evaluation after the call.
Evaluate(e) ==
    [e EXCEPT !.result =
        EvaluateErrors(e.layer.errors,
                       IF Len(e.layer.errors) = 0 THEN "PASS" ELSE e.result)]


\* ------------------------------------------------------------- files on disk

\* A path that should hold a JSON document: absent, not decodable, or a
\* document (a record holding the keys the document has).
EmptyDoc == [k \in {} |-> ""]
Missing == [st |-> "missing", doc |-> EmptyDoc]
Malformed == [st |-> "malformed", doc |-> EmptyDoc]
Json(doc) == [st |-> "ok", doc |-> doc]

Without(doc, key) == [k \in DOMAIN doc \ {key} |-> doc[k]]

Raise(exception) == [tag |-> exception]
Return(value) == [tag |-> "ok", value |-> value]

\* An absent file is reported as a missing key.
ReadPropertyMissingAsKeyError(file, key) ==
    IF file.st = "missing" THEN Raise("KeyError")
    ELSE IF file.st = "malformed" THEN Raise("JSONDecodeError")
    ELSE IF key \notin DOMAIN file.doc THEN Raise("KeyError")
    ELSE Return(file.doc[key])

\* open(path) ... json.load(...)[key]: the three ways it raises, or the value.
ReadProperty(file, key) ==
    IF file.st = "missing" THEN Raise("FileNotFoundError")
    ELSE IF file.st = "malformed" THEN Raise("JSONDecodeError")
    ELSE IF key \notin DOMAIN file.doc THEN Raise("KeyError")
    ELSE Return(file.doc[key])

\* Operation._get_description_property
GetDescriptionProperty(description_file, description_property) ==
    ReadProperty(description_file, description_property)

\* MapProduct._get_map_chef_description_property
GetMapChefDescriptionProperty(description_file, description_property) ==
    ReadProperty(description_file, description_property)

\* pycountry's table, as far as the snapshots use it: alpha_3 -> name.
Countries == [GBR |-> "United Kingdom", FRA |-> "France"]

\* countries.get(alpha_3=code): the country, or None when there is none.
CountriesGet(code) ==
    IF code \in DOMAIN Countries
    THEN [alpha_3 |-> code, name |-> Countries[code]]
    ELSE None

\* int(s) for a string of decimal digits; ValueError otherwise.
DigitValue(c) ==
    CASE c = "0" -> 0 [] c = "1" -> 1 [] c = "2" -> 2 [] c = "9" -> 9 [] OTHER -> -1

RECURSIVE IntFrom(_, _)
IntFrom(s, acc) ==
    IF s = <<>> THEN acc ELSE IntFrom(Tail(s), 10 * acc + DigitValue(Head(s)))

ParseIntRaises(s) == s = <<>> \/ \E i \in 1..Len(s) : DigitValue(s[i]) < 0
ParseInt(s) == IntFrom(s, 0)


\* ------------------------------------------------------------- MapProduct

\* Path.glob("*.json") then max(): the highest-named iteration file of the
\* product directory.  iterations is a set of [name, file]; names are distinct.
LatestMapChefDescription(iterations) ==
    CHOOSE it \in iterations :
        \A other \in iterations \ {it} : StrLess(other.name, it.name)

\* The iteration file with the lowest name is taken as the latest.
EarliestMapChefDescription(iterations) ==
    CHOOSE it \in iterations :
        \A other \in iterations \ {it} : StrLess(it.name, other.name)

\* The for/break loop of _get_map_chef_primary_layers: the first frame named
\* as the principal frame, or the empty dict.
RECURSIVE PrimaryDataFrame(_, _)
PrimaryDataFrame(map_frames, primary_data_frame_id) ==
    IF map_frames = <<>> THEN EmptyDoc
    ELSE IF Head(map_frames).name = primary_data_frame_id THEN Head(map_frames)
    ELSE PrimaryDataFrame(Tail(map_frames), primary_data_frame_id)

\* The second loop of _get_map_chef_primary_layers: one MapLayer per entry.
RECURSIVE BuildLayers(_)
BuildLayers(layer_entries) ==
    IF layer_entries = <<>> THEN Return(<<>>)
    ELSE LET l == Head(layer_entries)
         IN IF MapLayerRaises(l.error_messages) THEN Raise("ValueError")
            ELSE LET rest == BuildLayers(Tail(layer_entries))
                 IN IF rest.tag # "ok" THEN rest
                    ELSE Return(<<MapLayer(l.name, l.error_messages)>> \o rest.value)

\* MapProduct._get_map_chef_primary_layers
GetMapChefPrimaryLayers(description_file) ==
    LET principal == ReadProperty(description_file, "principal_map_frame")
        frames    == ReadProperty(description_file, "map_frames")
    IN IF principal.tag # "ok" THEN principal
       ELSE IF frames.tag # "ok" THEN frames
       ELSE LET primary_data_frame == PrimaryDataFrame(frames.value, principal.value)
            IN IF "layers" \notin DOMAIN primary_data_frame THEN Raise("KeyError")
               ELSE BuildLayers(primary_data_frame.layers)

\* MapProduct.__init__: the product, or the exception it raises.
MapProduct(product_dir) ==
    IF ~product_dir.is_dir THEN Raise("MapProductInvalid")
    ELSE IF product_dir.iterations = {} THEN Raise("MapProductInvalid")
    ELSE LET f == LatestMapChefDescription(product_dir.iterations).file
             product_id   == GetMapChefDescriptionProperty(f, "mapnumber")
             product_name == GetMapChefDescriptionProperty(f, "product")
             version_num  == GetMapChefDescriptionProperty(f, "version_num")
         IN IF product_id.tag # "ok" THEN product_id
            ELSE IF product_name.tag # "ok" THEN product_name
            ELSE IF version_num.tag # "ok" THEN version_num
            ELSE IF ParseIntRaises(version_num.value) THEN Raise("ValueError")
            ELSE LET layers == GetMapChefPrimaryLayers(f)
                 IN IF layers.tag # "ok" THEN layers
                    ELSE Return([product_id   |-> product_id.value,
                                 product_name |-> product_name.value,
                                 version      |-> ParseInt(version_num.value),
                                 layers       |-> layers.value])

\* ------------------------------------------------------------- Operation

\* An empty operation id is accepted.
OperationNoIdCheck(root) ==
    LET ev == root.event_description
        operation_id   == GetDescriptionProperty(ev, "operation_id")
        operation_name == GetDescriptionProperty(ev, "operation_name")
        iso3           == GetDescriptionProperty(ev, "affected_country_iso3")
    IN IF operation_id.tag # "ok" THEN operation_id
       ELSE IF operation_name.tag # "ok" THEN operation_name
       ELSE IF iso3.tag # "ok" THEN iso3
       ELSE Return([operation_id     |-> operation_id.value,
                    operation_name   |-> operation_name.value,
                    affected_country |-> CountriesGet(iso3.value)])

\* Operation.__init__: the operation (its properties; base_path is set by the
\* caller), or the exception it raises.  The reads happen in this order.
Operation(root) ==
    LET ev  == root.event_description
        cmf == root.cmf_description
        cmf_descriptor_path == GetDescriptionProperty(ev, "cmf_descriptor_path")
        map_projects        == GetDescriptionProperty(cmf, "map_projects")
        layer_properties    == GetDescriptionProperty(cmf, "layer_properties")
        operation_id        == GetDescriptionProperty(ev, "operation_id")
        operation_name      == GetDescriptionProperty(ev, "operation_name")
        iso3                == GetDescriptionProperty(ev, "affected_country_iso3")
    IN IF cmf_descriptor_path.tag # "ok" THEN cmf_descriptor_path
       ELSE IF map_projects.tag # "ok" THEN map_projects
       ELSE IF layer_properties.tag # "ok" THEN layer_properties
       ELSE IF operation_id.tag # "ok" THEN operation_id
       ELSE IF operation_id.value = "" THEN Raise("OperationInvalid")
       ELSE IF operation_name.tag # "ok" THEN operation_name
       ELSE IF iso3.tag # "ok" THEN iso3
       ELSE Return([operation_id     |-> operation_id.value,
                    operation_name   |-> operation_name.value,
                    affected_country |-> CountriesGet(iso3.value)])

\* The loop appends nothing.
LayersOfDefinitionsDropped(layer_definitions) == <<>>

\* The loop of Operation.get_layer_properties: one MapLayer per definition,
\* each with the single message MAPCHEF_OUTPUT_MISSING.
LayersOfDefinitions(layer_definitions) ==
    [i \in 1..Len(layer_definitions) |->
        MapLayer(layer_definitions[i].name, <<"MAPCHEF_OUTPUT_MISSING">>)]

\* The fallback layers carry no error.
GetLayerPropertiesNoError(root) ==
    LET layer_definitions == ReadProperty(root.layer_properties, "layerProperties")
    IN IF layer_definitions.tag # "ok" THEN layer_definitions
       ELSE Return([i \in 1..Len(layer_definitions.value) |->
                       MapLayer(layer_definitions.value[i].name, <<>>)])

\* Operation.get_layer_properties: the layers, or the exception it raises.
GetLayerProperties(root) ==
    LET layer_definitions == ReadProperty(root.layer_properties, "layerProperties")
    IN IF layer_definitions.tag # "ok" THEN layer_definitions
       ELSE Return(LayersOfDefinitions(layer_definitions.value))

\* Operation.export
OperationExport(operation) ==
    [affected_country_iso3 |-> operation.affected_country.alpha_3,
     affected_country_name |-> operation.affected_country.name,
     id   |-> operation.operation_id,
     name |-> operation.operation_name]


\* ------------------------------------------------------------- the stages

Warning(path, message) == [level |-> "WARNING", path |-> path, message |-> message]

\* The loop of parse_operations from path i on.  An Operation keeps the index
\* of its configured path as base_path.
RECURSIVE ParseOperationsFrom(_, _, _, _)
ParseOperationsFrom(paths, i, ops, warnings) ==
    IF i > Len(paths) THEN [tag |-> "ok", operations |-> ops, log |-> warnings]
    ELSE LET r == Operation(paths[i])
         IN CASE r.tag = "ok" ->
                   ParseOperationsFrom(paths, i + 1,
                       Append(ops, [base_path        |-> i,
                                    operation_id     |-> r.value.operation_id,
                                    operation_name   |-> r.value.operation_name,
                                    affected_country |-> r.value.affected_country]),
                       warnings)
              [] r.tag = "FileNotFoundError" ->
                   ParseOperationsFrom(paths, i + 1, ops,
                       Append(warnings, Warning(i, "does not appear to exist, ignoring operation.")))
              [] r.tag = "OperationInvalid" ->
                   ParseOperationsFrom(paths, i + 1, ops,
                       Append(warnings, Warning(i, "does not appear to be valid, ignoring operation.")))
              [] OTHER -> [tag |-> r.tag, operations |-> ops, log |-> warnings]

\* parse_operations
ParseOperations(paths) == ParseOperationsFrom(paths, 1, <<>>, <<>>)

\* What one iteration of parse_operation_layers assigns to layers[operation_id]:
\* [tag, value, source], source naming the branch taken.
ResolveLayersNoFallback(root) ==
    LET product == MapProduct(root.product)
    IN IF product.tag = "ok"
       THEN [tag |-> "ok", value |-> product.value.layers, source |-> "product"]
       ELSE [tag |-> product.tag, value |-> <<>>, source |-> "none"]

ResolveLayersFallbackOnAnyError(root) ==
    LET product == MapProduct(root.product)
    IN IF product.tag = "ok"
       THEN [tag |-> "ok", value |-> product.value.layers, source |-> "product"]
       ELSE LET fallback == GetLayerProperties(root)
            IN IF fallback.tag = "ok"
               THEN [tag |-> "ok", value |-> fallback.value, source |-> "fallback"]
               ELSE [tag |-> fallback.tag, value |-> <<>>, source |-> "none"]

ResolveLayers(root) ==
    LET product == MapProduct(root.product)
    IN IF product.tag = "ok"
       THEN [tag |-> "ok", value |-> product.value.layers, source |-> "product"]
       ELSE IF product.tag = "MapProductInvalid"
       THEN LET fallback == GetLayerProperties(root)
            IN IF fallback.tag = "ok"
               THEN [tag |-> "ok", value |-> fallback.value, source |-> "fallback"]
               ELSE [tag |-> fallback.tag, value |-> <<>>, source |-> "none"]
       ELSE [tag |-> product.tag, value |-> <<>>, source |-> "none"]

\* The loop of parse_operation_layers over the operations still to do.
RECURSIVE ParseOperationLayersFrom(_, _, _, _)
ParseOperationLayersFrom(paths, ops, layers, sources) ==
    IF ops = <<>> THEN [tag |-> "ok", layers |-> layers, sources |-> sources]
    ELSE LET operation == Head(ops)
             r == ResolveLayers(paths[operation.base_path])
         IN IF r.tag = "ok"
            THEN ParseOperationLayersFrom(paths, Tail(ops),
                     DictSet(layers, operation.operation_id, r.value),
                     Append(sources, r.source))
            ELSE [tag |-> r.tag, layers |-> layers, sources |-> sources]

\* parse_operation_layers
ParseOperationLayers(paths, ops) == ParseOperationLayersFrom(paths, ops, DictEmpty, <<>>)

\* The filter its docstring describes: operations without layers are dropped.
FilterOperationsWithLayers(ops, layers) ==
    SelectSeq(ops, LAMBDA o : DictHas(layers, o.operation_id)
                              /\ DictGet(layers, o.operation_id) # <<>>)

\* Only the first operation that has layers is kept.
FilterValidOperationsFirstOnly(ops, layers) ==
    LET valid == SelectSeq(ops, LAMBDA o : DictHas(layers, o.operation_id))
    IN IF valid = <<>> THEN <<>> ELSE <<Head(valid)>>

\* filter_valid_operations
FilterValidOperations(ops, layers) ==
    SelectSeq(ops, LAMBDA o : DictHas(layers, o.operation_id))

\* The inner loop of generate_evaluations.
EvaluationsOf(operation_id, layers) ==
    [i \in 1..Len(layers) |-> Evaluation(operation_id, layers[i])]

\* The outer loop of generate_evaluations over the keys still to do.
RECURSIVE GenerateEvaluationsFrom(_, _)
GenerateEvaluationsFrom(keys, layers) ==
    IF keys = <<>> THEN <<>>
    ELSE EvaluationsOf(Head(keys), DictGet(layers, Head(keys)))
         \o GenerateEvaluationsFrom(Tail(keys), layers)

\* generate_evaluations
GenerateEvaluations(layers) == GenerateEvaluationsFrom(layers.keys, layers)

\* process_evaluations
ProcessEvaluations(evals) == [i \in 1..Len(evals) |-> Evaluate(evals[i])]

\* A call of evaluate evaluates the whole list.
EvaluateAtAll(evals, i) == ProcessEvaluations(evals)

\* One pass of the loop of process_evaluations: evaluation.evaluate() on the
\* i-th evaluation of the list.
EvaluateAt(evals, i) == [evals EXCEPT ![i] = Evaluate(evals[i])]


\* ------------------------------------------------------------- the summary

\* The totals start without the key ERROR.
ZeroTotalsFour == [r \in EvaluationResult \ {"ERROR"} |-> 0]

\* The literal dict of the five result names, each 0.
ZeroTotals == [r \in EvaluationResult |-> 0]

\* Whether layer_id.split(sep="-")[1] raises IndexError.
LayerCategoryRaises(layer_id) == Len(Split(layer_id, "-")) < 2

\* The first token is taken as the category.
LayerCategoryFirstToken(layer_id) == Split(layer_id, "-")[1]

\* layer_id.split(sep="-")[1]: Python counts from 0, so this is the second token.
LayerCategory(layer_id) == Split(layer_id, "-")[2]

\* The latest result replaces the aggregate.
AggregateLatest(aggregate, result) == result

\* The first result of a category stays its aggregate.
AggregateFirst(aggregate, result) ==
    IF aggregate = "NOT_EVALUATED" THEN result ELSE aggregate

\* The comparison that updates a category's aggregate.
Aggregate(aggregate, result) ==
    IF ResultValue(result) > ResultValue(aggregate) THEN result ELSE aggregate

EmptySummary ==
    [totals_by_result |-> ZeroTotals,
     totals_by_result_by_operation |-> DictEmpty,
     aggregated_layer_results_by_operation |-> DictEmpty]

\* One iteration of the loop of summarise_evaluations (the layer id has a
\* second token).
SummariseOne(acc, evaluation) ==
    LET op == evaluation.operation_id
        tbo == IF DictHas(acc.totals_by_result_by_operation, op)
               THEN acc.totals_by_result_by_operation
               ELSE DictSet(acc.totals_by_result_by_operation, op, ZeroTotals)
        layer_category == LayerCategory(evaluation.layer.layer_id)
        agg == IF DictHas(acc.aggregated_layer_results_by_operation, op)
               THEN acc.aggregated_layer_results_by_operation
               ELSE DictSet(acc.aggregated_layer_results_by_operation, op, DictEmpty)
        inner == IF DictHas(DictGet(agg, op), layer_category)
                 THEN DictGet(agg, op)
                 ELSE DictSet(DictGet(agg, op), layer_category, "NOT_EVALUATED")
    IN [totals_by_result |->
            [acc.totals_by_result EXCEPT ![evaluation.result] = @ + 1],
        totals_by_result_by_operation |->
            DictSet(tbo, op, [DictGet(tbo, op) EXCEPT ![evaluation.result] = @ + 1]),
        aggregated_layer_results_by_operation |->
            DictSet(agg, op,
                DictSet(inner, layer_category,
                    Aggregate(DictGet(inner, layer_category), evaluation.result)))]

\* The loop ends after its first iteration.
SummariseFromFirstOnly(evals, acc) ==
    IF evals = <<>> THEN Return(acc)
    ELSE IF LayerCategoryRaises(Head(evals).layer.layer_id) THEN Raise("IndexError")
    ELSE Return(SummariseOne(acc, Head(evals)))

\* The loop of summarise_evaluations over the evaluations still to do.
RECURSIVE SummariseFrom(_, _)
SummariseFrom(evals, acc) ==
    IF evals = <<>> THEN Return(acc)
    ELSE IF LayerCategoryRaises(Head(evals).layer.layer_id) THEN Raise("IndexError")
    ELSE SummariseFrom(Tail(evals), SummariseOne(acc, Head(evals)))

\* summarise_evaluations: the summary, or the exception it raises.
SummariseEvaluations(evals) == SummariseFrom(evals, EmptySummary)

\* ------------------------------------------------------------- the export

DisplayLabels ==
    [result_types |->
        [NOT_EVALUATED |-> "Not Evaluated", PASS |-> "Pass",
         PASS_WITH_WARNINGS |-> "Warning", FAIL |-> "Fail", ERROR |-> "Error"],
     layer_aggregation_categories |->
        [admn |-> "Admin", carto |-> "Cartographic", elev |-> "Elevation",
         phys |-> "Physical features", stle |-> "Settlements", tran |-> "Transport"]]

\* The first loop of prepare_export.
RECURSIVE ExportOperationsFrom(_, _)
ExportOperationsFrom(ops, acc) ==
    IF ops = <<>> THEN Return(acc)
    ELSE LET operation == Head(ops)
         IN IF operation.affected_country = None THEN Raise("AttributeError")
            ELSE ExportOperationsFrom(Tail(ops),
                   [operations |-> Append(acc.operations, OperationExport(operation)),
                    operations_by_id |->
                        DictSet(acc.operations_by_id, operation.operation_id,
                                OperationExport(operation)),
                    countries |->
                        DictSet(acc.countries, operation.affected_country.alpha_3,
                                operation.affected_country.name)])

DictSetIn(d, outer, inner, v) ==
    LET d1 == IF DictHas(d, outer) THEN d ELSE DictSet(d, outer, DictEmpty)
    IN DictSet(d1, outer, DictSet(DictGet(d1, outer), inner, v))

\* Every evaluation is put in the bucket PASS.
RECURSIVE ExportResultsFromOneBucket(_, _)
ExportResultsFromOneBucket(evals, acc) ==
    IF evals = <<>> THEN acc
    ELSE LET e == Head(evals)
         IN ExportResultsFromOneBucket(Tail(evals),
              [results_by_operation |->
                   DictSetIn(acc.results_by_operation, e.operation_id,
                             e.layer.layer_id, e.result),
               results_by_layer |->
                   DictSetIn(acc.results_by_layer, e.layer.layer_id,
                             e.operation_id, e.result),
               results_by_result |->
                   [acc.results_by_result EXCEPT !["PASS"] =
                       Append(@, [operation_id |-> e.operation_id,
                                  layer_id |-> e.layer.layer_id])],
               ungrouped_results |->
                   Append(acc.ungrouped_results,
                          [operation_id |-> e.operation_id,
                           layer_id |-> e.layer.layer_id,
                           result |-> e.result])])

\* The second loop of prepare_export.
RECURSIVE ExportResultsFrom(_, _)
ExportResultsFrom(evals, acc) ==
    IF evals = <<>> THEN acc
    ELSE LET e == Head(evals)
         IN ExportResultsFrom(Tail(evals),
              [results_by_operation |->
                   DictSetIn(acc.results_by_operation, e.operation_id,
                             e.layer.layer_id, e.result),
               results_by_layer |->
                   DictSetIn(acc.results_by_layer, e.layer.layer_id,
                             e.operation_id, e.result),
               results_by_result |->
                   [acc.results_by_result EXCEPT ![e.result] =
                       Append(@, [operation_id |-> e.operation_id,
                                  layer_id |-> e.layer.layer_id])],
               ungrouped_results |->
                   Append(acc.ungrouped_results,
                          [operation_id |-> e.operation_id,
                           layer_id |-> e.layer.layer_id,
                           result |-> e.result])])

\* The reading of the clock is also written as the application version.
ExportMetaStampedVersion(utcnow) ==
    [app_version |-> utcnow,
     export_version |-> 1,
     export_datetime |-> utcnow,
     display_labels |-> DisplayLabels]

\* The "meta" part of the document prepare_export returns.
ExportMeta(utcnow) ==
    [app_version |-> "__version__",
     export_version |-> 1,
     export_datetime |-> utcnow,
     display_labels |-> DisplayLabels]

\* prepare_export: the document, or the exception it raises.  utcnow is the
\* reading of the clock.
PrepareExport(evals, summary_evaluations, ops, utcnow) ==
    LET o == ExportOperationsFrom(ops,
                [operations |-> <<>>, operations_by_id |-> DictEmpty,
                 countries |-> DictEmpty])
        r == ExportResultsFrom(evals,
                [results_by_operation |-> DictEmpty,
                 results_by_layer |-> DictEmpty,
                 results_by_result |-> [x \in EvaluationResult |-> <<>>],
                 ungrouped_results |-> <<>>])
    IN IF o.tag # "ok" THEN o
       ELSE Return(
         [meta |-> ExportMeta(utcnow),
          data |-> [operations |-> o.value.operations,
                    operations_by_id |-> o.value.operations_by_id,
                    countries |-> o.value.countries,
                    results_by_operation |-> r.results_by_operation,
                    results_by_layer |-> r.results_by_layer,
                    results_by_result |-> r.results_by_result,
                    ungrouped_results |-> r.ungrouped_results,
                    summary_statistics |-> summary_evaluations]])


\* json.dump(..., sort_keys=True): a dict is written as a JSON object, whose
\* keys come out sorted whatever the insertion order was; the object read back
\* is the mapping alone.
JsonObject(d) == d.map

JsonObjects(d) == [k \in DOMAIN d.map |-> JsonObject(d.map[k])]

JsonDump(export) ==
    [meta |-> export.meta,
     data |->
        [operations |-> export.data.operations,
         operations_by_id |-> JsonObject(export.data.operations_by_id),
         countries |-> JsonObject(export.data.countries),
         results_by_operation |-> JsonObjects(export.data.results_by_operation),
         results_by_layer |-> JsonObjects(export.data.results_by_layer),
         results_by_result |-> export.data.results_by_result,
         ungrouped_results |-> export.data.ungrouped_results,
         summary_statistics |->
            [totals_by_result |-> export.data.summary_statistics.totals_by_result,
             totals_by_result_by_operation |->
                JsonObject(export.data.summary_statistics.totals_by_result_by_operation),
             aggregated_layer_results_by_operation |->
                JsonObjects(export.data.summary_statistics.aggregated_layer_results_by_operation)]]]

\* ------------------------------------------------------------- the spreadsheet

\* sorted(): insertion into a list kept in ascending order.
RECURSIVE InsertSorted(_, _)
InsertSorted(sorted, k) ==
    IF sorted = <<>> THEN <<k>>
    ELSE IF StrLess(k, Head(sorted)) THEN <<k>> \o sorted
    ELSE <<Head(sorted)>> \o InsertSorted(Tail(sorted), k)

RECURSIVE Sorted(_)
Sorted(keys) ==
    IF keys = <<>> THEN <<>> ELSE InsertSorted(Sorted(Tail(keys)), Head(keys))

\* OrderedDict(sorted(d.items())).values()
ValuesSortedByKey(d) ==
    LET ks == Sorted(d.keys) IN [i \in 1..Len(ks) |-> DictGet(d, ks[i])]

\* The loop that fills summary_data / data: one row per operation, keyed by the
\* operation's affected_country_name.
RECURSIVE RowsByCountry(_, _, _, _)
RowsByCountry(keys, results, operations_by_id, acc) ==
    IF keys = <<>> THEN Return(acc)
    ELSE IF ~DictHas(operations_by_id, Head(keys)) THEN Raise("KeyError")
    ELSE RowsByCountry(Tail(keys), results, operations_by_id,
            DictSet(acc, DictGet(operations_by_id, Head(keys)).affected_country_name,
                    ValuesSortedByKey(DictGet(results, Head(keys)))))

Max(S) == CHOOSE x \in S : \A y \in S : y <= x

\* DataFrame.replace(to_replace=result_types): a result name becomes its label.
DisplayLabel(value) ==
    IF value \in DOMAIN DisplayLabels.result_types
    THEN DisplayLabels.result_types[value] ELSE value

\* pd.DataFrame.from_dict(rows, orient="index", columns=...), .replace(...) and
\* .transpose(): the rows are taken by position, a short row is filled with NaN
\* at its end, and the widest row must be as wide as the columns.  The frame
\* after transpose has one row per column label and one column per country.
DataFrame(rows, n_columns) ==
    LET width == IF rows.keys = <<>> THEN n_columns
                 ELSE Max({Len(DictGet(rows, k)) : k \in Range(rows.keys)})
    IN IF width # n_columns THEN Raise("ValueError")
       ELSE Return([columns |-> rows.keys,
                    cell |-> [c \in Range(rows.keys) |->
                                [i \in 1..n_columns |->
                                    IF i <= Len(DictGet(rows, c))
                                    THEN DisplayLabel(DictGet(rows, c)[i])
                                    ELSE "NaN"]]])

\* export_google_sheets up to the uploads: the summary and the detail frame, or
\* the exception raised.
GoogleSheetsFrames(export) ==
    LET summary_data ==
            RowsByCountry(
                export.data.summary_statistics.aggregated_layer_results_by_operation.keys,
                export.data.summary_statistics.aggregated_layer_results_by_operation,
                export.data.operations_by_id, DictEmpty)
        data ==
            RowsByCountry(export.data.results_by_operation.keys,
                          export.data.results_by_operation,
                          export.data.operations_by_id, DictEmpty)
    IN IF summary_data.tag # "ok" THEN summary_data
       ELSE LET summary_dataframe ==
                    DataFrame(summary_data.value,
                              Cardinality(DOMAIN DisplayLabels.layer_aggregation_categories))
            IN IF summary_dataframe.tag # "ok" THEN summary_dataframe
               ELSE IF data.tag # "ok" THEN data
               ELSE LET detail_dataframe ==
                            DataFrame(data.value, Len(export.data.results_by_layer.keys))
                    IN IF detail_dataframe.tag # "ok" THEN detail_dataframe
                       ELSE Return([summary |-> summary_dataframe.value,
                                    detail_rows |-> Sorted(export.data.results_by_layer.keys),
                                    detail |-> detail_dataframe.value])


\* ------------------------------------------------------------- the snapshots

\* Layer ids.
admn_a == <<"a","d","m","n","-","a">>
admn_b == <<"a","d","m","n","-","b">>
ma_admn_a == <<"m","a","-","a","d","m","n","-","a">>
ma_admn_b == <<"m","a","-","a","d","m","n","-","b">>
ma_tran_a == <<"m","a","-","t","r","a","n","-","a">>
ma_carto_a == <<"m","a","-","c","a","r","t","o","-","a">>
ma_elev_a == <<"m","a","-","e","l","e","v","-","a">>
ma_phys_a == <<"m","a","-","p","h","y","s","-","a">>
ma_stle_a == <<"m","a","-","s","t","l","e","-","a">>
nocat == <<"n","o","c","a","t">>

MsgNone == "Unable to find dataset for this layer"
MsgMultiple == "Found multiple datasets which match this layer"
MsgSchema == "Data schema check failed"
MsgUnknown == "Some new error"

LayerEntry(name, error_messages) == [name |-> name, error_messages |-> error_messages]
Frame(name, layers) == [name |-> name, layers |-> layers]

\* A product iteration description whose principal frame "Main map" holds the
\* given layers; frame "Overview" comes first and is not the principal frame.
IterationDoc(layers) ==
    [mapnumber |-> "MA9999", product |-> "All layers", version_num |-> <<"2">>,
     principal_map_frame |-> "Main map",
     map_frames |-> <<Frame("Overview", <<LayerEntry(ma_tran_a, <<MsgUnknown>>)>>),
                      Frame("Main map", layers)>>]

PrincipalLayerLists ==
    { <<>>,
      <<LayerEntry(ma_admn_a, <<>>)>>,
      <<LayerEntry(ma_admn_a, <<>>), LayerEntry(ma_admn_b, <<MsgNone>>)>>,
      <<LayerEntry(admn_a, <<>>), LayerEntry(admn_b, <<MsgNone>>)>>,
      <<LayerEntry(ma_admn_a, <<MsgSchema>>), LayerEntry(ma_tran_a, <<MsgNone, MsgMultiple>>)>>,
      <<LayerEntry(ma_admn_a, <<>>), LayerEntry(ma_admn_b, <<MsgUnknown>>)>>,
      <<LayerEntry(ma_admn_a, <<>>), LayerEntry(ma_admn_a, <<MsgNone>>)>>,
      <<LayerEntry(nocat, <<>>)>>,
      <<LayerEntry(ma_tran_a, <<MsgSchema>>), LayerEntry(ma_stle_a, <<>>),
        LayerEntry(ma_phys_a, <<>>), LayerEntry(ma_elev_a, <<>>),
        LayerEntry(ma_carto_a, <<>>), LayerEntry(ma_admn_a, <<MsgNone>>)>> }

IterationFiles ==
    {Json(IterationDoc(layers)) : layers \in PrincipalLayerLists}
    \cup {Malformed,
          Json(Without(IterationDoc(<<>>), "version_num")),
          Json([IterationDoc(<<LayerEntry(ma_admn_a, <<>>)>>)
                    EXCEPT !.principal_map_frame = "Location map"])}

Name9 == <<"9",".","j","s","o","n">>
Name10 == <<"1","0",".","j","s","o","n">>

Dir(iterations) == [is_dir |-> TRUE, iterations |-> iterations]
NoDir == [is_dir |-> FALSE, iterations |-> {}]

\* Product directories that hold an iteration.
ProductDirs ==
    {Dir({[name |-> Name9, file |-> f]}) : f \in IterationFiles}
    \cup {Dir({[name |-> Name9, file |-> Json(IterationDoc(<<LayerEntry(ma_admn_a, <<>>)>>))],
               [name |-> Name10, file |-> Json(IterationDoc(<<LayerEntry(ma_tran_a, <<MsgSchema>>)>>))]})}

LayerProperties(names) ==
    Json([layerProperties |-> [i \in 1..Len(names) |-> [name |-> names[i]]]])

\* A product directory without iteration and the fallback file beside it.
FallbackCases ==
    {<<NoDir, Missing>>, <<NoDir, LayerProperties(<<>>)>>,
     <<NoDir, LayerProperties(<<ma_admn_a, ma_tran_a>>)>>,
     <<Dir({}), Malformed>>, <<Dir({}), Json(EmptyDoc)>>,
     <<Dir({}), LayerProperties(<<ma_admn_a, ma_admn_b>>)>>,
     <<Dir({}), LayerProperties(<<nocat>>)>>}

EventDoc(operation_id, iso3) ==
    [operation_id |-> operation_id, operation_name |-> "Prepared country data",
     affected_country_iso3 |-> iso3, cmf_descriptor_path |-> "cmf_description.json"]

CmfDoc == [map_projects |-> "GIS/3_Mapping/33_Map_Projects",
           layer_properties |-> "GIS/3_Mapping/31_Resources/316_Automation/layerProperties.json"]

Root(event_description, cmf_description, layer_properties, product) ==
    [event_description |-> event_description, cmf_description |-> cmf_description,
     layer_properties |-> layer_properties, product |-> product]

DefaultLayerProperties == LayerProperties(<<ma_admn_a, ma_tran_a>>)
DefaultProduct == Dir({[name |-> Name9, file |-> Json(IterationDoc(<<LayerEntry(ma_admn_a, <<>>)>>))]})

\* Roots whose description documents are all present and complete.
WellDescribedRoots ==
    {Root(Json(EventDoc(id, IF id = "X" THEN "GBR" ELSE "FRA")), Json(CmfDoc),
          DefaultLayerProperties, p) : id \in {"X", "Y"}, p \in ProductDirs}
    \cup {Root(Json(EventDoc(id, IF id = "X" THEN "GBR" ELSE "FRA")), Json(CmfDoc),
               c[2], c[1]) : id \in {"X", "Y"}, c \in FallbackCases}
    \cup {Root(Json(EventDoc("X", "ZZZ")), Json(CmfDoc), DefaultLayerProperties, DefaultProduct),
          Root(Json(EventDoc("Y", "GBR")), Json(CmfDoc), DefaultLayerProperties, DefaultProduct),
          Root(Json(EventDoc("", "GBR")), Json(CmfDoc), DefaultLayerProperties, DefaultProduct)}

\* Roots with an absent, undecodable or incomplete description document.
IllDescribedRoots ==
    {Root(Missing, Missing, Missing, NoDir),
     Root(Malformed, Json(CmfDoc), DefaultLayerProperties, DefaultProduct)}
    \cup {Root(Json(Without(EventDoc(id, "GBR"), "cmf_descriptor_path")), Missing,
               DefaultLayerProperties, DefaultProduct) : id \in {"", "X"}}
    \cup {Root(Json(EventDoc(id, "GBR")), Missing, Missing, NoDir) : id \in {"", "X"}}
    \cup {Root(Json(EventDoc("", "GBR")), Malformed, DefaultLayerProperties, DefaultProduct),
          Root(Json(EventDoc("", "GBR")), Json(Without(CmfDoc, "layer_properties")),
               Missing, DefaultProduct),
          Root(Json(EventDoc("X", "GBR")), Json(Without(CmfDoc, "map_projects")),
               DefaultLayerProperties, NoDir)}
    \cup {Root(Json(Without(EventDoc("X", "GBR"), k)), Json(CmfDoc),
               DefaultLayerProperties, DefaultProduct)
            : k \in {"operation_id", "operation_name", "affected_country_iso3"}}

Roots == WellDescribedRoots \cup IllDescribedRoots

\* The readings of the clock prepare_export can take.
Clock == {"2021-03-01T09:00:00.000", "2021-03-01T09:00:00.001"}


\* ------------------------------------------------------------- run()

Init ==
    /\ fs \in [1..NumPaths -> Roots]
    /\ pc = "parse_operations"
    /\ error = "none"
    /\ log = <<>>
    /\ operations = <<>>
    /\ operation_layers = DictEmpty
    /\ layer_source = <<>>
    /\ evaluations = <<>>
    /\ summary = None
    /\ export_data = None
    /\ export_file = None
    /\ sheets = None
    /\ executed = {}

\* An exception no stage catches: run() ends with it.
Abort(exception) ==
    /\ pc' = "aborted"
    /\ error' = exception

\* operations = parse_operations(config=app_config)
RunParseOperations ==
    /\ pc = "parse_operations"
    /\ LET r == ParseOperations(fs)
       IN /\ log' = r.log
          /\ IF r.tag = "ok"
             THEN /\ operations' = r.operations
                  /\ pc' = "parse_operation_layers"
                  /\ UNCHANGED error
             ELSE /\ Abort(r.tag)
                  /\ UNCHANGED operations
    /\ UNCHANGED <<fs, executed, operation_layers, layer_source, evaluations, summary,
                   export_data, export_file, sheets>>

\* operation_layers = parse_operation_layers(config=app_config, operations=operations)
RunParseOperationLayers ==
    /\ pc = "parse_operation_layers"
    /\ LET r == ParseOperationLayers(fs, operations)
       IN /\ layer_source' = r.sources
          /\ IF r.tag = "ok"
             THEN /\ operation_layers' = r.layers
                  /\ pc' = "filter_valid_operations"
                  /\ UNCHANGED error
             ELSE /\ Abort(r.tag)
                  /\ UNCHANGED operation_layers
    /\ UNCHANGED <<fs, executed, log, operations, evaluations, summary, export_data,
                   export_file, sheets>>

\* operations = filter_valid_operations(...)
RunFilterValidOperations ==
    /\ pc = "filter_valid_operations"
    /\ operations' = FilterValidOperations(operations, operation_layers)
    /\ pc' = "generate_evaluations"
    /\ UNCHANGED <<fs, executed, error, log, operation_layers, layer_source, evaluations,
                   summary, export_data, export_file, sheets>>

\* evaluations = generate_evaluations(operation_layers=operation_layers)
RunGenerateEvaluations ==
    /\ pc = "generate_evaluations"
    /\ evaluations' = GenerateEvaluations(operation_layers)
    /\ pc' = "process_evaluations"
    /\ UNCHANGED <<fs, executed, error, log, operations, operation_layers, layer_source,
                   summary, export_data, export_file, sheets>>

\* process_evaluations(evaluations=evaluations)
RunProcessEvaluations ==
    /\ pc = "process_evaluations"
    /\ evaluations' = ProcessEvaluations(evaluations)
    /\ pc' = "summarise_evaluations"
    /\ UNCHANGED <<fs, executed, error, log, operations, operation_layers, layer_source,
                   summary, export_data, export_file, sheets>>

\* summary_evaluations = summarise_evaluations(evaluations=evaluations)
RunSummariseEvaluations ==
    /\ pc = "summarise_evaluations"
    /\ LET r == SummariseEvaluations(evaluations)
       IN IF r.tag = "ok"
          THEN /\ summary' = r.value
               /\ pc' = "prepare_export"
               /\ UNCHANGED error
          ELSE /\ Abort(r.tag)
               /\ UNCHANGED summary
    /\ UNCHANGED <<fs, executed, log, operations, operation_layers, layer_source,
                   evaluations, export_data, export_file, sheets>>

\* export_data = prepare_export(...)
RunPrepareExport ==
    /\ pc = "prepare_export"
    /\ \E utcnow \in Clock :
         LET r == PrepareExport(evaluations, summary, operations, utcnow)
         IN IF r.tag = "ok"
            THEN /\ export_data' = r.value
                 /\ pc' = "export_json"
                 /\ UNCHANGED error
            ELSE /\ Abort(r.tag)
                 /\ UNCHANGED export_data
    /\ UNCHANGED <<fs, executed, log, operations, operation_layers, layer_source,
                   evaluations, summary, export_file, sheets>>

\* export_json(export_data=export_data, export_path=...)
RunExportJson ==
    /\ pc = "export_json"
    /\ export_file' = JsonDump(export_data)
    /\ pc' = "export_google_sheets"
    /\ UNCHANGED <<fs, executed, error, log, operations, operation_layers, layer_source,
                   evaluations, summary, export_data, sheets>>

\* export_google_sheets(config=app_config, export_data=export_data)
RunExportGoogleSheets ==
    /\ pc = "export_google_sheets"
    /\ LET r == GoogleSheetsFrames(export_data)
       IN IF r.tag = "ok"
          THEN /\ sheets' = r.value
               /\ pc' = "done"
               /\ UNCHANGED error
          ELSE /\ Abort(r.tag)
               /\ UNCHANGED sheets
    /\ UNCHANGED <<fs, executed, log, operations, operation_layers, layer_source,
                   evaluations, summary, export_data, export_file>>

Next ==
    \/ RunParseOperations
    \/ RunParseOperationLayers
    \/ RunFilterValidOperations
    \/ RunGenerateEvaluations
    \/ RunProcessEvaluations
    \/ RunSummariseEvaluations
    \/ RunPrepareExport
    \/ RunExportJson
    \/ RunExportGoogleSheets

Spec == Init /\ [][Next]_vars


\* ------------------------------------------------- Evaluation.evaluate alone

\* process_evaluations over one freshly built evaluation of a layer whose
\* classified errors are any sequence of at most MaxErrors kinds.
InitEvaluate ==
    /\ fs = <<>>
    /\ pc = "process_evaluations"
    /\ error = "none"
    /\ log = <<>>
    /\ operations = <<>>
    /\ operation_layers = DictEmpty
    /\ layer_source = <<>>
    /\ \E errors \in SeqsUpTo(MapChefError, MaxErrors) :
          evaluations = <<Evaluation("X", [layer_id |-> ma_admn_a, errors |-> errors])>>
    /\ summary = None
    /\ export_data = None
    /\ export_file = None
    /\ sheets = None
    /\ executed = {}

NextEvaluate == RunProcessEvaluations

SpecEvaluate == InitEvaluate /\ [][NextEvaluate]_vars

\* ------------------------------------------------ MapLayer construction

\* Messages a layer entry of a description file can carry: the four MapChef
\* writes, and others that differ from them by a trailing space, by a leading
\* space, by case, or that are a member's name, or new.
Messages ==
    {MsgNone, MsgMultiple, MsgSchema, "MAPCHEF_OUTPUT_MISSING",
     "Data schema check failed ", " Unable to find dataset for this layer",
     "data schema check failed", "LAYER_SCHEMA_INVALID", MsgUnknown}

\* A root whose latest iteration lists one layer in its principal frame, with
\* the given messages.
MapLayerRoot(error_messages) ==
    Root(Json(EventDoc("X", "GBR")), Json(CmfDoc), DefaultLayerProperties,
         Dir({[name |-> Name9,
               file |-> Json(IterationDoc(<<LayerEntry(ma_admn_a, error_messages)>>))]}))

\* run() over one such root, up to the construction of its layer.
InitMapLayer ==
    /\ \E error_messages \in SeqsUpTo(Messages, MaxMessages) :
          fs = <<MapLayerRoot(error_messages)>>
    /\ pc = "parse_operations"
    /\ error = "none"
    /\ log = <<>>
    /\ operations = <<>>
    /\ operation_layers = DictEmpty
    /\ layer_source = <<>>
    /\ evaluations = <<>>
    /\ summary = None
    /\ export_data = None
    /\ export_file = None
    /\ sheets = None
    /\ executed = {}

NextMapLayer ==
    \/ RunParseOperations
    \/ RunParseOperationLayers

SpecMapLayer == InitMapLayer /\ [][NextMapLayer]_vars

\* ------------------------------------------- calls of Evaluation.evaluate

\* The layers the evaluations of SpecEvaluateCalls are about.
EvaluatedLayers ==
    {[layer_id |-> ma_admn_a, errors |-> errors] :
        errors \in {<<>>,
                    <<"LAYER_SCHEMA_INVALID">>,
                    <<"LAYER_DATASOURCE_NONE">>,
                    <<"LAYER_DATASOURCE_MULTIPLE", "MAPCHEF_OUTPUT_MISSING">>,
                    <<"MAPCHEF_OUTPUT_MISSING", "LAYER_SCHEMA_INVALID">>}}

\* Lists of one to MaxEvals freshly built evaluations.
FreshEvaluations ==
    UNION {[1..n -> {Evaluation(op, layer) : op \in {"X", "Y"}, layer \in EvaluatedLayers}] :
              n \in 1..MaxEvals}

InitEvaluateCalls ==
    /\ fs = <<>>
    /\ pc = "process_evaluations"
    /\ error = "none"
    /\ log = <<>>
    /\ operations = <<>>
    /\ operation_layers = DictEmpty
    /\ layer_source = <<>>
    /\ evaluations \in FreshEvaluations
    /\ summary = None
    /\ export_data = None
    /\ export_file = None
    /\ sheets = None
    /\ executed = {}

\* evaluation.evaluate() on the i-th evaluation, in any order and any number
\* of times.
CallEvaluate(i) ==
    /\ pc = "process_evaluations"
    /\ evaluations' = EvaluateAt(evaluations, i)
    /\ executed' = IF evaluations[i].result # "NOT_EVALUATED"
                   THEN executed \cup {i} ELSE executed
    /\ UNCHANGED <<fs, pc, error, log, operations, operation_layers, layer_source,
                   summary, export_data, export_file, sheets>>

NextEvaluateCalls == \E i \in 1..Len(evaluations) : CallEvaluate(i)

SpecEvaluateCalls == InitEvaluateCalls /\ [][NextEvaluateCalls]_vars

\* ------------------------------------------------- summarise_evaluations alone

SummariseLayerIds == {admn_a, admn_b, ma_admn_a, ma_admn_b, nocat}

\* Evaluations as summarise_evaluations may be handed them: any operation id,
\* layer and result.
SummariseInputs ==
    [operation_id : {"X", "Y"},
     layer : {[layer_id |-> l, errors |-> <<>>] : l \in SummariseLayerIds},
     result : EvaluationResult]

InitSummarise ==
    /\ fs = <<>>
    /\ pc = "summarise_evaluations"
    /\ error = "none"
    /\ log = <<>>
    /\ operations = <<>>
    /\ operation_layers = DictEmpty
    /\ layer_source = <<>>
    /\ evaluations \in SeqsUpTo(SummariseInputs, MaxEvals)
    /\ summary = None
    /\ export_data = None
    /\ export_file = None
    /\ sheets = None
    /\ executed = {}

\* summarise_evaluations, then prepare_export over its return value.
NextSummarise ==
    \/ RunSummariseEvaluations
    \/ RunPrepareExport

SpecSummarise == InitSummarise /\ [][NextSummarise]_vars


\* ------------------------------------------------- the dagster pipeline (foo.py)

\* rds_dashboard_pipeline: for each solid, the solids whose outputs it takes.
\* process_evaluations returns None and no solid takes its output.
Upstream ==
    [get_config            |-> {},
     get_operations        |-> {"get_config"},
     get_operation_layers  |-> {"get_config", "get_operations"},
     filter_operations     |-> {"get_operations", "get_operation_layers"},
     generate_evaluations  |-> {"get_operation_layers"},
     process_evaluations   |-> {"generate_evaluations"},
     summarise_evaluations |-> {"generate_evaluations"},
     prepare_export        |-> {"generate_evaluations", "summarise_evaluations",
                                "filter_operations"},
     export_json           |-> {"get_config", "prepare_export"},
     export_google_sheets  |-> {"get_config", "prepare_export"}]

\* A solid may execute once all its inputs are there; execute_pipeline raises
\* the first exception of a solid and nothing executes after it.
Ready(solid) ==
    /\ pc = "pipeline"
    /\ solid \notin executed
    /\ Upstream[solid] \subseteq executed

Executed(solid) == executed' = executed \cup {solid}

InitPipeline ==
    /\ fs \in [1..NumPaths -> Roots]
    /\ pc = "pipeline"
    /\ error = "none"
    /\ log = <<>>
    /\ operations = <<>>
    /\ operation_layers = DictEmpty
    /\ layer_source = <<>>
    /\ evaluations = <<>>
    /\ summary = None
    /\ export_data = None
    /\ export_file = None
    /\ sheets = None
    /\ executed = {}

SolidGetConfig ==
    /\ Ready("get_config")
    /\ Executed("get_config")
    /\ UNCHANGED <<fs, pc, error, log, operations, operation_layers, layer_source,
                   evaluations, summary, export_data, export_file, sheets>>

SolidGetOperations ==
    /\ Ready("get_operations")
    /\ Executed("get_operations")
    /\ LET r == ParseOperations(fs)
       IN /\ log' = r.log
          /\ IF r.tag = "ok"
             THEN /\ operations' = r.operations
                  /\ UNCHANGED <<pc, error>>
             ELSE /\ Abort(r.tag)
                  /\ UNCHANGED operations
    /\ UNCHANGED <<fs, operation_layers, layer_source, evaluations, summary,
                   export_data, export_file, sheets>>

SolidGetOperationLayers ==
    /\ Ready("get_operation_layers")
    /\ Executed("get_operation_layers")
    /\ LET r == ParseOperationLayers(fs, operations)
       IN /\ layer_source' = r.sources
          /\ IF r.tag = "ok"
             THEN /\ operation_layers' = r.layers
                  /\ UNCHANGED <<pc, error>>
             ELSE /\ Abort(r.tag)
                  /\ UNCHANGED operation_layers
    /\ UNCHANGED <<fs, log, operations, evaluations, summary, export_data,
                   export_file, sheets>>

SolidFilterOperations ==
    /\ Ready("filter_operations")
    /\ Executed("filter_operations")
    /\ operations' = FilterValidOperations(operations, operation_layers)
    /\ UNCHANGED <<fs, pc, error, log, operation_layers, layer_source, evaluations,
                   summary, export_data, export_file, sheets>>

SolidGenerateEvaluations ==
    /\ Ready("generate_evaluations")
    /\ Executed("generate_evaluations")
    /\ evaluations' = GenerateEvaluations(operation_layers)
    /\ UNCHANGED <<fs, pc, error, log, operations, operation_layers, layer_source,
                   summary, export_data, export_file, sheets>>

\* The solid mutates the Evaluation objects the other solids were handed.
SolidProcessEvaluations ==
    /\ Ready("process_evaluations")
    /\ Executed("process_evaluations")
    /\ evaluations' = ProcessEvaluations(evaluations)
    /\ UNCHANGED <<fs, pc, error, log, operations, operation_layers, layer_source,
                   summary, export_data, export_file, sheets>>

SolidSummariseEvaluations ==
    /\ Ready("summarise_evaluations")
    /\ Executed("summarise_evaluations")
    /\ LET r == SummariseEvaluations(evaluations)
       IN IF r.tag = "ok"
          THEN /\ summary' = r.value
               /\ UNCHANGED <<pc, error>>
          ELSE /\ Abort(r.tag)
               /\ UNCHANGED summary
    /\ UNCHANGED <<fs, log, operations, operation_layers, layer_source,
                   evaluations, export_data, export_file, sheets>>

SolidPrepareExport ==
    /\ Ready("prepare_export")
    /\ Executed("prepare_export")
    /\ \E utcnow \in Clock :
         LET r == PrepareExport(evaluations, summary, operations, utcnow)
         IN IF r.tag = "ok"
            THEN /\ export_data' = r.value
                 /\ UNCHANGED <<pc, error>>
            ELSE /\ Abort(r.tag)
                 /\ UNCHANGED export_data
    /\ UNCHANGED <<fs, log, operations, operation_layers, layer_source,
                   evaluations, summary, export_file, sheets>>

SolidExportJson ==
    /\ Ready("export_json")
    /\ Executed("export_json")
    /\ export_file' = JsonDump(export_data)
    /\ UNCHANGED <<fs, pc, error, log, operations, operation_layers, layer_source,
                   evaluations, summary, export_data, sheets>>

\* The solid only writes a log line.
SolidExportGoogleSheets ==
    /\ Ready("export_google_sheets")
    /\ Executed("export_google_sheets")
    /\ UNCHANGED <<fs, pc, error, log, operations, operation_layers, layer_source,
                   evaluations, summary, export_data, export_file, sheets>>

NextPipeline ==
    \/ SolidGetConfig
    \/ SolidGetOperations
    \/ SolidGetOperationLayers
    \/ SolidFilterOperations
    \/ SolidGenerateEvaluations
    \/ SolidProcessEvaluations
    \/ SolidSummariseEvaluations
    \/ SolidPrepareExport
    \/ SolidExportJson
    \/ SolidExportGoogleSheets

SpecPipeline == InitPipeline /\ [][NextPipeline]_vars


\* ===================================================================== claims

\* The order of results the specification states, least severe first.
SeverityOrder == <<"NOT_EVALUATED", "PASS", "PASS_WITH_WARNINGS", "FAIL", "ERROR">>

Severity(r) == CHOOSE i \in 1..Len(SeverityOrder) : SeverityOrder[i] = r

MostSevere(results) == CHOOSE r \in results : \A q \in results : Severity(q) <= Severity(r)

\* The table of section 4.5: error kind -> result.
StatedResultOf ==
    [MAPCHEF_OUTPUT_MISSING    |-> "FAIL",
     LAYER_DATASOURCE_NONE     |-> "FAIL",
     LAYER_DATASOURCE_MULTIPLE |-> "PASS_WITH_WARNINGS",
     LAYER_SCHEMA_INVALID      |-> "PASS_WITH_WARNINGS"]

PermutationsOf(n) == {p \in [1..n -> 1..n] : \A i, j \in 1..n : p[i] = p[j] => i = j}

Permuted(s, p) == [i \in 1..Len(s) |-> s[p[i]]]

\* C1: evaluate on a freshly built evaluation yields PASS exactly when the layer
\* has no errors, otherwise the most severe of the results the table gives its
\* errors, and every permutation of the errors yields the same result.
C1_EvaluateMostSevere ==
    pc = "summarise_evaluations" =>
        \A i \in 1..Len(evaluations) :
            LET e == evaluations[i]
                E == e.layer.errors
            IN /\ (e.result = "PASS") <=> (E = <<>>)
               /\ E # <<>> =>
                    e.result = MostSevere({StatedResultOf[E[k]] : k \in 1..Len(E)})
               /\ \A p \in PermutationsOf(Len(E)) :
                    Evaluate(Evaluation(e.operation_id,
                        [layer_id |-> e.layer.layer_id, errors |-> Permuted(E, p)])).result
                    = e.result

\* C1 witness: a layer with a warning-level error before a failing one was
\* evaluated, and failed.
C1_Witness ==
    /\ pc = "summarise_evaluations"
    /\ \E i \in 1..Len(evaluations) :
          /\ evaluations[i].layer.errors = <<"LAYER_SCHEMA_INVALID", "LAYER_DATASOURCE_NONE">>
          /\ evaluations[i].result = "FAIL"

\* The second token of a layer id split on "-".
SecondToken(layer_id) == Split(layer_id, "-")[2]

EvaluationsOfCategory(operation_id, category) ==
    {k \in 1..Len(evaluations) :
        /\ evaluations[k].operation_id = operation_id
        /\ SecondToken(evaluations[k].layer.layer_id) = category}

Aggregated(operation_id) ==
    DictGet(summary.aggregated_layer_results_by_operation, operation_id)

\* C9: in the summary, each operation's aggregate for each category is the most
\* severe result among that operation's evaluations of layers of that category.
C9_CategoryAggregateMostSevere ==
    pc = "prepare_export" =>
        \A k \in 1..Len(evaluations) :
            LET op == evaluations[k].operation_id
                category == SecondToken(evaluations[k].layer.layer_id)
            IN /\ DictHas(summary.aggregated_layer_results_by_operation, op)
               /\ DictHas(Aggregated(op), category)
               /\ DictGet(Aggregated(op), category) =
                    MostSevere({evaluations[j].result : j \in EvaluationsOfCategory(op, category)})

\* C9 witness: a summary of two evaluations of one category of one operation,
\* the more severe result first.
C9_Witness ==
    /\ pc = "prepare_export"
    /\ Len(evaluations) = 2
    /\ evaluations[1].operation_id = evaluations[2].operation_id
    /\ evaluations[1].layer.layer_id = ma_admn_a
    /\ evaluations[2].layer.layer_id = ma_admn_b
    /\ evaluations[1].result = "FAIL"
    /\ evaluations[2].result = "PASS"
    /\ DictGet(Aggregated(evaluations[1].operation_id), <<"a","d","m","n">>) = "FAIL"

\* The evaluations of the example: operation X, admn-a PASS and admn-b FAIL.
C10_Example ==
    /\ pc = "prepare_export"
    /\ Len(evaluations) = 2
    /\ Range(evaluations) =
          {[operation_id |-> "X", layer |-> [layer_id |-> admn_a, errors |-> <<>>],
            result |-> "PASS"],
           [operation_id |-> "X", layer |-> [layer_id |-> admn_b, errors |-> <<>>],
            result |-> "FAIL"]}

\* C10 as stated: both layers fall in the single category admn, whose aggregate
\* for X is FAIL.
C10_AsStated ==
    C10_Example =>
        /\ Range(Aggregated("X").keys) = {<<"a","d","m","n">>}
        /\ DictGet(Aggregated("X"), <<"a","d","m","n">>) = "FAIL"

\* C10 amended: the second tokens of admn-a and admn-b are a and b, so the
\* layers fall in the two categories a and b, with aggregates PASS and FAIL.
C10_SecondTokenCategories ==
    C10_Example =>
        /\ Range(Aggregated("X").keys) = {<<"a">>, <<"b">>}
        /\ DictGet(Aggregated("X"), <<"a">>) = "PASS"
        /\ DictGet(Aggregated("X"), <<"b">>) = "FAIL"

\* C10 witness: the example was summarised.
C10_Witness == C10_Example /\ summary # None


\* ------------------------------------------------- claims on the summary totals

\* The number of evaluations with the given result.
Tally(result) == Cardinality({k \in 1..Len(evaluations) : evaluations[k].result = result})

\* The number of evaluations of the operation with the given result.
TallyOf(operation_id, result) ==
    Cardinality({k \in 1..Len(evaluations) :
                    /\ evaluations[k].operation_id = operation_id
                    /\ evaluations[k].result = result})

FiveResultKeys == {"NOT_EVALUATED", "PASS", "PASS_WITH_WARNINGS", "FAIL", "ERROR"}

\* C11: totals_by_result has exactly the five result keys, each holding the
\* number of evaluations with that result, the five values sum to the number of
\* evaluations, and the export document's summary holds the same totals.
C11_TotalsByResult ==
    /\ summary # None =>
         /\ DOMAIN summary.totals_by_result = FiveResultKeys
         /\ \A r \in FiveResultKeys : summary.totals_by_result[r] = Tally(r)
         /\ SeqSum([i \in 1..Len(SeverityOrder) |->
                       summary.totals_by_result[SeverityOrder[i]]]) = Len(evaluations)
    /\ export_data # None =>
         /\ DOMAIN export_data.data.summary_statistics.totals_by_result = FiveResultKeys
         /\ \A r \in FiveResultKeys :
               export_data.data.summary_statistics.totals_by_result[r] = Tally(r)

\* C11 witness: two evaluations with different results were summarised and the
\* export document was built, some totals being zero.
C11_Witness ==
    /\ export_data # None
    /\ Len(evaluations) = 2
    /\ summary.totals_by_result["PASS"] = 1
    /\ summary.totals_by_result["ERROR"] = 1
    /\ summary.totals_by_result["FAIL"] = 0

\* C12: totals_by_result_by_operation has one entry per operation id occurring
\* in the evaluations, each entry has the five result keys and holds that
\* operation's tallies, and per result the entries sum to the global total.
C12_TotalsPartitionedByOperation ==
    summary # None =>
        LET by_operation == summary.totals_by_result_by_operation
        IN /\ Range(by_operation.keys) =
                 {evaluations[k].operation_id : k \in 1..Len(evaluations)}
           /\ Len(by_operation.keys) = Cardinality(Range(by_operation.keys))
           /\ \A op \in Range(by_operation.keys) :
                 /\ DOMAIN DictGet(by_operation, op) = FiveResultKeys
                 /\ \A r \in FiveResultKeys : DictGet(by_operation, op)[r] = TallyOf(op, r)
           /\ \A r \in FiveResultKeys :
                 SeqSum([i \in 1..Len(by_operation.keys) |->
                            DictGet(by_operation, by_operation.keys[i])[r]])
                 = summary.totals_by_result[r]

\* C12 witness: evaluations of two operations with the same result were
\* summarised.
C12_Witness ==
    /\ summary # None
    /\ Len(evaluations) = 2
    /\ evaluations[1].operation_id # evaluations[2].operation_id
    /\ evaluations[1].result = "FAIL"
    /\ evaluations[2].result = "FAIL"
    /\ summary.totals_by_result["FAIL"] = 2

\* A Python dict compared as a mapping: the insertion order does not count.
AsMapping(d) == d.map

AsMappings(d) == [k \in DOMAIN d.map |-> AsMapping(d.map[k])]

\* Whether two return values of summarise_evaluations hold equal mappings.
SameSummary(s, t) ==
    /\ s.totals_by_result = t.totals_by_result
    /\ AsMapping(s.totals_by_result_by_operation) = AsMapping(t.totals_by_result_by_operation)
    /\ AsMappings(s.aggregated_layer_results_by_operation)
         = AsMappings(t.aggregated_layer_results_by_operation)

\* C13: summarising any permutation of the evaluations gives the same three
\* mappings (and raises when, and only when, the given order raises).
C13_SummaryOrderIndependent ==
    pc # "summarise_evaluations" =>
        \A p \in PermutationsOf(Len(evaluations)) :
            LET permuted == SummariseEvaluations(Permuted(evaluations, p))
            IN IF summary = None
               THEN permuted.tag = error
               ELSE /\ permuted.tag = "ok"
                    /\ SameSummary(permuted.value, summary)

\* C13 witness: evaluations of two operations with different results of one
\* category each were summarised; the other order inserts the keys the other
\* way round.
C13_Witness ==
    /\ summary # None
    /\ Len(evaluations) >= 2
    /\ evaluations[1].operation_id # evaluations[2].operation_id
    /\ evaluations[1].result # evaluations[2].result
    /\ \E p \in PermutationsOf(Len(evaluations)) :
          SummariseEvaluations(Permuted(evaluations, p)).value.totals_by_result_by_operation.keys
            # summary.totals_by_result_by_operation.keys

\* C14: the comparison of result values is the stated total order, the
\* reduction returns the more severe of its two arguments, and folding a
\* category's aggregate with a result of that category, with itself, or with
\* all evaluations once more leaves it as it is.
C14_ReductionOrderedIdempotent ==
    /\ \A r, q \in EvaluationResult :
          ResultValue(r) < ResultValue(q) <=> Severity(r) < Severity(q)
    /\ \A a, r \in EvaluationResult : Aggregate(a, r) = MostSevere({a, r})
    /\ summary # None =>
         /\ \A k \in 1..Len(evaluations) :
               LET aggregate == DictGet(Aggregated(evaluations[k].operation_id),
                                        SecondToken(evaluations[k].layer.layer_id))
               IN /\ Aggregate(aggregate, evaluations[k].result) = aggregate
                  /\ Aggregate(aggregate, aggregate) = aggregate
         /\ SummariseFrom(evaluations, summary).value.aggregated_layer_results_by_operation
              = summary.aggregated_layer_results_by_operation

\* C14 witness: a category whose two results differ was aggregated to the more
\* severe one, which came first.
C14_Witness ==
    /\ summary # None
    /\ Len(evaluations) = 2
    /\ evaluations[1].operation_id = evaluations[2].operation_id
    /\ SecondToken(evaluations[1].layer.layer_id) = SecondToken(evaluations[2].layer.layer_id)
    /\ evaluations[1].result = "ERROR"
    /\ evaluations[2].result = "PASS_WITH_WARNINGS"
    /\ DictGet(Aggregated(evaluations[1].operation_id),
               SecondToken(evaluations[1].layer.layer_id)) = "ERROR"


\* ------------------------------------------------- claims on the lifecycle

\* What summarise_evaluations and prepare_export read had been evaluated.
C15_EvaluatedBeforeRead ==
    /\ summary # None => summary.totals_by_result["NOT_EVALUATED"] = 0
    /\ export_data # None =>
         /\ export_data.data.results_by_result["NOT_EVALUATED"] = <<>>
         /\ \A k \in 1..Len(export_data.data.ungrouped_results) :
               export_data.data.ungrouped_results[k].result # "NOT_EVALUATED"

\* Evaluations are created NOT_EVALUATED and are left alone once read.
C15_Step ==
    /\ (evaluations = <<>> /\ evaluations' # <<>>) =>
          \A k \in 1..Len(evaluations') : evaluations'[k].result = "NOT_EVALUATED"
    /\ (summary # None \/ export_data # None) => evaluations' = evaluations

\* C15: in every order of execution each evaluation is created NOT_EVALUATED,
\* is evaluated before summarise_evaluations or prepare_export reads it, and is
\* not changed after it was read.
C15_Lifecycle == []C15_EvaluatedBeforeRead /\ [][C15_Step]_vars


\* ------------------------------------------------------------ claims on run()

\* The configured paths whose Operation was constructed.
Constructed == {i \in DOMAIN fs : Operation(fs[i]).tag = "ok"}

OperationIdOf(i) == Operation(fs[i]).value.operation_id

\* The 'all layers' product directory is missing or holds no iteration file.
NoIteration(root) == ~root.product.is_dir \/ root.product.iterations = {}

\* The layer names the fallback layer-definitions file declares.
DeclaredFallbackLayers(root) ==
    IF root.layer_properties.st = "ok" /\ "layerProperties" \in DOMAIN root.layer_properties.doc
    THEN Range([k \in 1..Len(root.layer_properties.doc.layerProperties) |->
                    root.layer_properties.doc.layerProperties[k].name])
    ELSE {}

ExportedOperationIds ==
    {export_file.data.operations[k].id : k \in 1..Len(export_file.data.operations)}

ExportedResultsOf(operation_id) ==
    {r \in Range(export_file.data.ungrouped_results) : r.operation_id = operation_id}

\* C2: once the export is written, every constructed operation without a
\* product iteration is in the exported operation list and its exported results
\* are exactly its fallback layers, each FAIL.
C2_FallbackLayersExportedAsFail ==
    export_file # None =>
        \A i \in Constructed :
            NoIteration(fs[i]) =>
                /\ OperationIdOf(i) \in ExportedOperationIds
                /\ ExportedResultsOf(OperationIdOf(i)) =
                     {[operation_id |-> OperationIdOf(i), layer_id |-> l, result |-> "FAIL"]
                        : l \in DeclaredFallbackLayers(fs[i])}

\* A reason for which one operation alone fails: its root or a description
\* file is absent, undecodable or lacks a key, its id is empty, its country code
\* is unknown, or its fallback layer-definitions file is needed and absent.
PerOperationFailure(root) ==
    \/ Operation(root).tag # "ok"
    \/ Operation(root).value.affected_country = None
    \/ NoIteration(root) /\ root.layer_properties.st = "missing"

\* A root nothing is wrong with: the operation is constructed, its country is
\* known and its layers resolve, each with a category.
Sound(root) ==
    /\ ~PerOperationFailure(root)
    /\ ResolveLayers(root).tag = "ok"
    /\ \A k \in 1..Len(ResolveLayers(root).value) :
          Len(Split(ResolveLayers(root).value[k].layer_id, "-")) >= 2

WarnedPaths == {log[k].path : k \in 1..Len(log)}

\* C3: when one configured operation fails for a per-operation reason and the
\* others are sound, the run does not end before the export is written, and the
\* export is built from the other operations with a warning logged for the
\* failing one.
C3_PerOperationFailuresIsolated ==
    \A i \in DOMAIN fs :
        (PerOperationFailure(fs[i]) /\ \A j \in DOMAIN fs \ {i} : Sound(fs[j])) =>
            /\ ~(pc = "aborted" /\ export_file = None)
            /\ export_file # None =>
                 /\ i \in WarnedPaths
                 /\ ExportedOperationIds = {OperationIdOf(j) : j \in DOMAIN fs \ {i}}

\* The four diagnostic strings of section 4.1.
StatedMessages ==
    {"Unable to find dataset for this layer",
     "Found multiple datasets which match this layer",
     "Data schema check failed",
     "MAPCHEF_OUTPUT_MISSING"}

\* The latest iteration of the root's product is a document whose principal
\* frame holds a layer with a message that is none of the known strings.
UnknownMessageInPrincipalFrame(root) ==
    /\ ~NoIteration(root)
    /\ LET f == LatestMapChefDescription(root.product.iterations).file
       IN /\ f.st = "ok"
          /\ {"mapnumber", "product", "version_num", "principal_map_frame", "map_frames"}
                \subseteq DOMAIN f.doc
          /\ LET frame == PrimaryDataFrame(f.doc.map_frames, f.doc.principal_map_frame)
             IN /\ "layers" \in DOMAIN frame
                /\ \E k \in 1..Len(frame.layers) :
                      \E m \in 1..Len(frame.layers[k].error_messages) :
                          frame.layers[k].error_messages[m] \notin StatedMessages

\* C4: when a constructed operation's latest product iteration carries an
\* unknown message in its principal frame, the run never gets past
\* parse_operation_layers: nothing is exported to the file or the spreadsheet.
C4_UnknownMessageAbortsRun ==
    (\E i \in Constructed : UnknownMessageInPrincipalFrame(fs[i])) =>
        /\ pc \in {"parse_operations", "parse_operation_layers", "aborted"}
        /\ export_data = None
        /\ export_file = None
        /\ sheets = None

\* C4 witness: the run ended on the ValueError of such a layer, after
\* parse_operations had accepted its operation.
C4_Witness ==
    /\ pc = "aborted"
    /\ error = "ValueError"
    /\ export_file = None
    /\ \E k \in 1..Len(operations) :
          UnknownMessageInPrincipalFrame(fs[operations[k].base_path])


\* The configured paths whose event description declares an empty operation_id.
EmptyIdPaths ==
    {i \in DOMAIN fs :
        /\ fs[i].event_description.st = "ok"
        /\ "operation_id" \in DOMAIN fs[i].event_description.doc
        /\ fs[i].event_description.doc.operation_id = ""}

WarningsFor(i) == {k \in 1..Len(log) : log[k].path = i /\ log[k].level = "WARNING"}

\* C5: a root whose event description declares an empty operation_id is nowhere
\* in the output, and once parse_operations has ended there is exactly one
\* warning for it, whatever else its description documents hold.
C5_EmptyIdOneWarning ==
    \A i \in EmptyIdPaths :
        /\ export_file # None =>
             /\ "" \notin ExportedOperationIds
             /\ "" \notin DOMAIN export_file.data.operations_by_id
             /\ "" \notin DOMAIN export_file.data.results_by_operation
             /\ "" \notin DOMAIN export_file.data.summary_statistics.totals_by_result_by_operation
             /\ \A r \in Range(export_file.data.ungrouped_results) : r.operation_id # ""
        /\ pc # "parse_operations" => Cardinality(WarningsFor(i)) = 1

\* The operations parse_operations accepted, in order.
Accepted == ParseOperations(fs).operations

\* MapProduct raises for the root's product although an iteration file exists.
MalformedProduct(root) == ~NoIteration(root) /\ MapProduct(root.product).tag # "ok"

\* C6: the branch that filled an operation's entry is the fallback exactly when
\* the product path is no directory or holds no iteration file, and
\* MapProductInvalid never ends the run; a product whose latest iteration is
\* malformed stops the run in parse_operation_layers with the exception
\* MapProduct raised, and no fallback is taken for it.
C6_FallbackOnlyWithoutIteration ==
    /\ error # "MapProductInvalid"
    /\ \A k \in 1..Len(layer_source) :
          /\ layer_source[k] = "fallback" <=> NoIteration(fs[Accepted[k].base_path])
          /\ layer_source[k] = "product" <=> ~NoIteration(fs[Accepted[k].base_path])
    /\ \A k \in 1..Len(operations) :
          MalformedProduct(fs[operations[k].base_path]) =>
              /\ pc \in {"parse_operation_layers", "aborted"}
              /\ Len(layer_source) < k
              /\ pc = "aborted" => error \notin {"none", "MapProductInvalid"}

\* C6 witness: parse_operation_layers returned, having taken the product branch
\* for one operation and the fallback branch for another.
C6_Witness ==
    /\ pc = "filter_valid_operations"
    /\ Range(layer_source) = {"product", "fallback"}

\* C6 witness of the other half: an undecodable latest iteration ended the run.
C6_WitnessMalformed ==
    /\ pc = "aborted"
    /\ error = "JSONDecodeError"
    /\ \E k \in 1..Len(operations) : MalformedProduct(fs[operations[k].base_path])

\* The number of layers the root declares where parse_operation_layers looks:
\* the principal frame of the latest iteration, or the fallback file.
DeclaredLayerCount(root) ==
    IF NoIteration(root)
    THEN Len(root.layer_properties.doc.layerProperties)
    ELSE LET doc == LatestMapChefDescription(root.product.iterations).file.doc
         IN Len(PrimaryDataFrame(doc.map_frames, doc.principal_map_frame).layers)

\* The last accepted operation with the id of the k-th.
LastWithIdOf(k) ==
    CHOOSE j \in 1..Len(operations) :
        /\ operations[j].operation_id = operations[k].operation_id
        /\ \A m \in (j + 1)..Len(operations) :
              operations[m].operation_id # operations[k].operation_id

C8_FilterDropsOperationsWithoutLayers ==
    pc = "generate_evaluations" =>
        /\ \A k \in 1..Len(operations) :
              DictGet(operation_layers, operations[k].operation_id) # <<>>
        /\ \A k \in 1..Len(Accepted) :
              DictGet(operation_layers, Accepted[k].operation_id) # <<>>
                  => Accepted[k] \in Range(operations)

\* The layers parse_operation_layers resolved for the k-th operation of the list.
ResolvedLayersOf(k) == ResolveLayers(fs[operations[k].base_path]).value

EvaluationsCarrying(operation_id, layer) ==
    {j \in 1..Len(evaluations) :
        /\ evaluations[j].operation_id = operation_id
        /\ evaluations[j].layer = layer}

\* C16: once the evaluations are generated, each operation of the final list
\* has exactly one evaluation per layer resolved for it, every evaluation is one
\* of these, and the evaluations number the sum of the operations' layer counts.
C16_OneEvaluationPerPair ==
    pc = "process_evaluations" =>
        /\ \A k \in 1..Len(operations) :
              \A i \in 1..Len(ResolvedLayersOf(k)) :
                  Cardinality(EvaluationsCarrying(operations[k].operation_id,
                                                  ResolvedLayersOf(k)[i])) = 1
        /\ \A j \in 1..Len(evaluations) :
              \E k \in 1..Len(operations) :
                  /\ evaluations[j].operation_id = operations[k].operation_id
                  /\ evaluations[j].layer \in Range(ResolvedLayersOf(k))
        /\ Len(evaluations) =
              SeqSum([k \in 1..Len(operations) |-> Len(ResolvedLayersOf(k))])

\* The latest iteration of the root's product is a complete document whose
\* principal_map_frame names none of its map frames.
NoFrameMatches(root) ==
    /\ ~NoIteration(root)
    /\ LET f == LatestMapChefDescription(root.product.iterations).file
       IN /\ f.st = "ok"
          /\ {"mapnumber", "product", "version_num", "principal_map_frame", "map_frames"}
                \subseteq DOMAIN f.doc
          /\ \A n \in 1..Len(f.doc.map_frames) :
                f.doc.map_frames[n].name # f.doc.principal_map_frame

\* C17: an accepted operation whose latest iteration names a principal frame
\* that matches no map frame gets through parse_operation_layers on the product
\* branch, without error, and with no layer.
C17_NoFrameMatchZeroLayers ==
    \A k \in 1..Len(operations) :
        ( /\ NoFrameMatches(fs[operations[k].base_path])
          /\ \A j \in 1..(k - 1) : ResolveLayers(fs[operations[j].base_path]).tag = "ok" )
        => /\ pc \notin {"parse_operations", "parse_operation_layers"} =>
                /\ Len(layer_source) >= k
                /\ layer_source[k] = "product"
           /\ (pc = "filter_valid_operations" /\ LastWithIdOf(k) = k) =>
                DictGet(operation_layers, operations[k].operation_id) = <<>>

\* The alpha-3 codes of ISO 3166-1 among the codes the snapshots declare.
RecognizedCodes == {"GBR", "FRA"}

\* The root's description documents are present and complete, its operation id
\* is not empty, and its country code is not a recognized one.
UnrecognizedCountry(root) ==
    /\ root.event_description.st = "ok"
    /\ root.cmf_description.st = "ok"
    /\ {"cmf_descriptor_path", "operation_id", "operation_name", "affected_country_iso3"}
          \subseteq DOMAIN root.event_description.doc
    /\ {"map_projects", "layer_properties"} \subseteq DOMAIN root.cmf_description.doc
    /\ root.event_description.doc.operation_id # ""
    /\ root.event_description.doc.affected_country_iso3 \notin RecognizedCodes

\* C18: an operation with an unrecognized country code is not in the list
\* parse_operations returns, a warning that it is not valid is logged for its
\* path, and no later stage ends the run because of it.
C18_UnrecognizedCountrySkipped ==
    \A i \in DOMAIN fs :
        UnrecognizedCountry(fs[i]) =>
            /\ pc = "parse_operation_layers" =>
                 /\ \A k \in 1..Len(operations) : operations[k].base_path # i
                 /\ \E w \in WarningsFor(i) :
                       log[w].message = "does not appear to be valid, ignoring operation."
            /\ error # "AttributeError"

\* The root does not exist, or the event description or the CMF description it
\* names does not exist.
MissingPath(root) ==
    \/ root.event_description.st = "missing"
    \/ /\ root.event_description.st = "ok"
       /\ "cmf_descriptor_path" \in DOMAIN root.event_description.doc
       /\ root.cmf_description.st = "missing"

\* The root's two description documents are present and complete and its
\* operation id is not empty.
CompleteRoot(root) ==
    /\ root.event_description.st = "ok"
    /\ root.cmf_description.st = "ok"
    /\ {"cmf_descriptor_path", "operation_id", "operation_name", "affected_country_iso3"}
          \subseteq DOMAIN root.event_description.doc
    /\ {"map_projects", "layer_properties"} \subseteq DOMAIN root.cmf_description.doc
    /\ root.event_description.doc.operation_id # ""

\* The loop of parse_operations gets to path i: no earlier path raised an
\* exception the loop does not catch.
ReachedPath(i) ==
    \A j \in 1..(i - 1) :
        Operation(fs[j]).tag \in {"ok", "FileNotFoundError", "OperationInvalid"}

\* A root nothing keeps from being an operation: complete, with a recognized
\* country code.
ValidRoot(root) ==
    /\ CompleteRoot(root)
    /\ root.event_description.doc.affected_country_iso3 \in RecognizedCodes

NumericReading(name) == ParseInt(Split(name, ".")[1])

\* The iteration whose name is highest as a string.
HighestLexicographic(iterations) ==
    CHOOSE it \in iterations : \A other \in iterations \ {it} : StrLess(other.name, it.name)

\* The iteration whose name is highest as a number.
HighestNumeric(iterations) ==
    CHOOSE it \in iterations :
        \A other \in iterations : NumericReading(other.name) <= NumericReading(it.name)

\* The product resolved for the root is the one its directory would give if it
\* held the iteration file top alone.
ResolvedFromAlone(root, top) ==
    LET alone == MapProduct([is_dir |-> TRUE, iterations |-> {top}])
    IN /\ alone.tag = "ok"
       /\ MapProduct(root.product) = alone

\* The lexicographic half of C20: the product and the layers entered for an
\* operation are those of the file with the highest name as a string.
C20_HighestLexicographicOnly ==
    pc = "filter_valid_operations" =>
        \A k \in 1..Len(operations) :
            layer_source[k] = "product" =>
                LET root == fs[operations[k].base_path]
                    top  == HighestLexicographic(root.product.iterations)
                IN /\ ResolvedFromAlone(root, top)
                   /\ LastWithIdOf(k) = k =>
                        DictGet(operation_layers, operations[k].operation_id)
                          = MapProduct([is_dir |-> TRUE, iterations |-> {top}]).value.layers

\* C20: the product and the layers entered for an operation resolved from its
\* product directory are those of the single iteration file with the highest
\* name, in the lexicographic and in the numeric reading of the names; the other
\* iteration files have no effect.
C20_HighestNamedIterationOnly ==
    pc = "filter_valid_operations" =>
        \A k \in 1..Len(operations) :
            layer_source[k] = "product" =>
                LET root == fs[operations[k].base_path]
                IN \A top \in {HighestLexicographic(root.product.iterations),
                               HighestNumeric(root.product.iterations)} :
                      /\ ResolvedFromAlone(root, top)
                      /\ LastWithIdOf(k) = k =>
                           DictGet(operation_layers, operations[k].operation_id)
                             = MapProduct([is_dir |-> TRUE, iterations |-> {top}]).value.layers

\* ------------------------------------------------- claims on the export document

\* The document another invocation of prepare_export on the same evaluations,
\* summary and operations returns when the clock reads t.
Reinvoked(t) == PrepareExport(evaluations, summary, operations, t).value

SemanticCategories ==
    {<<"a","d","m","n">>, <<"c","a","r","t","o">>, <<"e","l","e","v">>,
     <<"p","h","y","s">>, <<"s","t","l","e">>, <<"t","r","a","n">>}

\* C22: in the summary every operation of the final list has an aggregate for
\* each of the six semantic categories, and the aggregate of a category none of
\* its evaluations belongs to is NOT_EVALUATED.
C22_EveryCategoryPresent ==
    pc = "prepare_export" =>
        \A k \in 1..Len(operations) :
            LET op == operations[k].operation_id
            IN /\ DictHas(summary.aggregated_layer_results_by_operation, op)
               /\ \A c \in SemanticCategories :
                     /\ DictHas(Aggregated(op), c)
                     /\ EvaluationsOfCategory(op, c) = {} =>
                            DictGet(Aggregated(op), c) = "NOT_EVALUATED"

\* The evaluations with the given result, in list order, as the pairs
\* results_by_result holds.
BucketOf(result) ==
    LET picked == SelectSeq(evaluations, LAMBDA e : e.result = result)
    IN [k \in 1..Len(picked) |->
          [operation_id |-> picked[k].operation_id, layer_id |-> picked[k].layer.layer_id]]

\* The results of the evaluations for the operation and the layer id.
ResultsFor(operation_id, layer_id) ==
    {evaluations[j].result : j \in {i \in 1..Len(evaluations) :
                                        /\ evaluations[i].operation_id = operation_id
                                        /\ evaluations[i].layer.layer_id = layer_id}}

\* C23: in the document prepare_export built, the k-th ungrouped result is the
\* k-th evaluation's operation id, layer id and result; each bucket of
\* results_by_result holds, once each, the evaluations with its result, so its
\* size is the summary's total for that result; and results_by_operation[o][l]
\* and results_by_layer[l][o] hold the same result, one of an evaluation for o
\* and l, for exactly the pairs o, l that have an evaluation.
C23_ResultsIndexed ==
    export_data # None =>
        LET d == export_data.data
        IN /\ Len(d.ungrouped_results) = Len(evaluations)
           /\ \A k \in 1..Len(evaluations) :
                 d.ungrouped_results[k] =
                    [operation_id |-> evaluations[k].operation_id,
                     layer_id |-> evaluations[k].layer.layer_id,
                     result |-> evaluations[k].result]
           /\ DOMAIN d.results_by_result = FiveResultKeys
           /\ \A r \in FiveResultKeys :
                 /\ d.results_by_result[r] = BucketOf(r)
                 /\ Len(d.results_by_result[r]) = summary.totals_by_result[r]
           /\ Range(d.results_by_operation.keys) =
                 {evaluations[k].operation_id : k \in 1..Len(evaluations)}
           /\ Range(d.results_by_layer.keys) =
                 {evaluations[k].layer.layer_id : k \in 1..Len(evaluations)}
           /\ \A o \in Range(d.results_by_operation.keys) :
                 \A l \in Range(d.results_by_layer.keys) :
                     IF ResultsFor(o, l) = {}
                     THEN /\ ~DictHas(DictGet(d.results_by_operation, o), l)
                          /\ ~DictHas(DictGet(d.results_by_layer, l), o)
                     ELSE /\ DictHas(DictGet(d.results_by_operation, o), l)
                          /\ DictHas(DictGet(d.results_by_layer, l), o)
                          /\ DictGet(DictGet(d.results_by_operation, o), l) \in ResultsFor(o, l)
                          /\ DictGet(DictGet(d.results_by_layer, l), o)
                               = DictGet(DictGet(d.results_by_operation, o), l)

\* C23 witness: a document was built from two evaluations of different
\* operations and layers with different results.
C23_Witness ==
    /\ export_data # None
    /\ Len(evaluations) = 2
    /\ evaluations[1].operation_id # evaluations[2].operation_id
    /\ evaluations[1].layer.layer_id # evaluations[2].layer.layer_id
    /\ evaluations[1].result = "FAIL"
    /\ evaluations[2].result = "PASS_WITH_WARNINGS"
    /\ Len(export_data.data.results_by_result["FAIL"]) = 1

\* The results an evaluated layer can have.
GradedResults == {"PASS", "PASS_WITH_WARNINGS", "FAIL"}

\* C24: from the end of process_evaluations on every evaluation's result is
\* PASS, PASS_WITH_WARNINGS or FAIL, and the summary, the export document and
\* the export file count and list nothing as NOT_EVALUATED or ERROR.
C24_OnlyGradedResults ==
    /\ pc # "process_evaluations" =>
          \A k \in 1..Len(evaluations) : evaluations[k].result \in GradedResults
    /\ summary # None =>
          \A r \in {"NOT_EVALUATED", "ERROR"} :
              /\ summary.totals_by_result[r] = 0
              /\ \A op \in Range(summary.totals_by_result_by_operation.keys) :
                    DictGet(summary.totals_by_result_by_operation, op)[r] = 0
              /\ \A op \in Range(summary.aggregated_layer_results_by_operation.keys) :
                    \A c \in Range(Aggregated(op).keys) : DictGet(Aggregated(op), c) # r
    /\ export_data # None =>
          /\ export_data.data.results_by_result["NOT_EVALUATED"] = <<>>
          /\ export_data.data.results_by_result["ERROR"] = <<>>
          /\ \A k \in 1..Len(export_data.data.ungrouped_results) :
                export_data.data.ungrouped_results[k].result \in GradedResults
    /\ export_file # None =>
          /\ export_file.data.results_by_result["NOT_EVALUATED"] = <<>>
          /\ export_file.data.results_by_result["ERROR"] = <<>>
          /\ export_file.data.summary_statistics.totals_by_result["NOT_EVALUATED"] = 0
          /\ export_file.data.summary_statistics.totals_by_result["ERROR"] = 0

\* C24 witness: the export file of a run lists results of all three grades.
C24_Witness ==
    /\ export_file # None
    /\ {export_file.data.ungrouped_results[k].result :
            k \in 1..Len(export_file.data.ungrouped_results)} = GradedResults

\* ---------------------------------------------- claims on calls of evaluate

\* The evaluations as they were built: the same operation ids and layers, not
\* evaluated.
Fresh(evals) ==
    [i \in 1..Len(evals) |-> Evaluation(evals[i].operation_id, evals[i].layer)]

\* C25: a call of evaluate changes nothing but the result of the evaluation it
\* is called on, and whatever the order of the calls, once every evaluation
\* has been evaluated the list is the one process_evaluations produces by
\* evaluating in list order.
C25_EvaluateIsLocal ==
    /\ [][\E i \in 1..Len(evaluations) :
            /\ Len(evaluations') = Len(evaluations)
            /\ \A j \in 1..Len(evaluations) :
                  /\ evaluations'[j].operation_id = evaluations[j].operation_id
                  /\ evaluations'[j].layer = evaluations[j].layer
                  /\ j # i => evaluations'[j] = evaluations[j]]_vars
    /\ []((\A i \in 1..Len(evaluations) : evaluations[i].result # "NOT_EVALUATED")
              => evaluations = ProcessEvaluations(Fresh(evaluations)))

\* C25 witness: two evaluations of different operations and different layers
\* have both been evaluated, to different results.
C25_Witness ==
    /\ Len(evaluations) = 2
    /\ pc = "process_evaluations"
    /\ fs = <<>>
    /\ evaluations[1].operation_id # evaluations[2].operation_id
    /\ evaluations[1].result = "PASS_WITH_WARNINGS"
    /\ evaluations[2].result = "FAIL"

\* C28: a call of evaluate on an evaluation that already has a result leaves
\* that result as it is.
C28_EvaluateIdempotent ==
    [][\A i \in 1..Len(evaluations) :
          evaluations[i].result # "NOT_EVALUATED" =>
              /\ Len(evaluations') = Len(evaluations)
              /\ evaluations'[i].result = evaluations[i].result]_vars

\* C28 witness: an evaluation of a layer with two errors has been evaluated
\* again, and so has one of a layer without errors.
C28_Witness ==
    /\ Len(evaluations) = 2
    /\ executed = {1, 2}
    /\ Len(evaluations[1].layer.errors) = 2
    /\ evaluations[1].result = "FAIL"
    /\ evaluations[2].layer.errors = <<>>
    /\ evaluations[2].result = "PASS"

\* ------------------------------------- claims on the exported operation ids

\* The operation ids that key results or statistics in the export file.
ResultOperationIds ==
    DOMAIN export_file.data.results_by_operation
    \cup DOMAIN export_file.data.summary_statistics.totals_by_result_by_operation
    \cup DOMAIN export_file.data.summary_statistics.aggregated_layer_results_by_operation
    \cup {export_file.data.ungrouped_results[k].operation_id :
             k \in 1..Len(export_file.data.ungrouped_results)}

\* C26: in the export file every operation id that keys results_by_operation,
\* the per-operation totals or the aggregated category results (or is carried
\* by a result) is a key of operations_by_id, whose entry has that id, and the
\* id of an entry of the operations list.
C26_ResultIdsAreOperations ==
    export_file # None =>
        \A op \in ResultOperationIds :
            /\ op \in DOMAIN export_file.data.operations_by_id
            /\ export_file.data.operations_by_id[op].id = op
            /\ op \in ExportedOperationIds

\* C26 witness: a completed run whose document holds results of two operations.
C26_Witness ==
    /\ pc = "done"
    /\ export_file # None
    /\ Cardinality(DOMAIN export_file.data.results_by_operation) = 2
    /\ Cardinality(ExportedOperationIds) = 2

\* ------------------------------------------- claims on MapLayer construction

\* The four known strings as the claim lists them, with their kinds.
StatedKind(message) ==
    CASE message = "Unable to find dataset for this layer" -> "LAYER_DATASOURCE_NONE"
      [] message = "Found multiple datasets which match this layer" -> "LAYER_DATASOURCE_MULTIPLE"
      [] message = "Data schema check failed" -> "LAYER_SCHEMA_INVALID"
      [] message = "MAPCHEF_OUTPUT_MISSING" -> "MAPCHEF_OUTPUT_MISSING"
      [] OTHER -> "none"

\* The messages of the layer the root of SpecMapLayer lists.
GivenMessages ==
    CHOOSE error_messages \in SeqsUpTo(Messages, MaxMessages) :
        fs = <<MapLayerRoot(error_messages)>>

\* C27: once the layer of the root has been constructed or has failed to be,
\* it was constructed exactly when every message equals one of the four known
\* strings; then its errors are the kinds of the messages, position by
\* position, and otherwise the construction raised ValueError and no layer
\* exists.
C27_MapLayerConstruction ==
    pc \notin {"parse_operations", "parse_operation_layers"} =>
        IF \A i \in 1..Len(GivenMessages) : StatedKind(GivenMessages[i]) # "none"
        THEN /\ error = "none"
             /\ DictHas(operation_layers, "X")
             /\ Len(DictGet(operation_layers, "X")) = 1
             /\ DictGet(operation_layers, "X")[1].layer_id = ma_admn_a
             /\ Len(DictGet(operation_layers, "X")[1].errors) = Len(GivenMessages)
             /\ \A i \in 1..Len(GivenMessages) :
                   DictGet(operation_layers, "X")[1].errors[i] = StatedKind(GivenMessages[i])
        ELSE /\ error = "ValueError"
             /\ pc = "aborted"
             /\ operation_layers = DictEmpty

\* C27 witness: a layer was constructed from two different known messages.
C27_Witness ==
    /\ pc = "filter_valid_operations"
    /\ Len(fs) = 1
    /\ DictHas(operation_layers, "X")
    /\ DictGet(operation_layers, "X")[1].errors =
          <<"LAYER_SCHEMA_INVALID", "MAPCHEF_OUTPUT_MISSING">>

\* C27 witness of the failing side: a known message followed by one that
\* differs from a known one only by a trailing space aborted the construction.
C27_WitnessNearMiss ==
    /\ Len(fs) = 1
    /\ fs = <<MapLayerRoot(<<MsgNone, "Data schema check failed ">>)>>
    /\ error = "ValueError"

\* ------------------------------------------- claims on the detail sheet

\* The position of a layer id among the row labels of the detail sheet.
DetailRowOf(layer_id) ==
    CHOOSE i \in 1..Len(sheets.detail_rows) : sheets.detail_rows[i] = layer_id

\* C29: in the detail sheet, for every operation and every layer the operation
\* has a result for, the cell in the operation's country column and the
\* layer's row holds the display label of that result.
C29_DetailCellsHoldResults ==
    sheets # None =>
        \A o \in Range(export_data.data.results_by_operation.keys) :
            LET country == DictGet(export_data.data.operations_by_id, o).affected_country_name
                results == DictGet(export_data.data.results_by_operation, o)
            IN \A l \in Range(results.keys) :
                  /\ country \in Range(sheets.detail.columns)
                  /\ sheets.detail.cell[country][DetailRowOf(l)] =
                        DisplayLabels.result_types[DictGet(results, l)]

\* The detail sheet of two operations with different layers puts a result in
\* the row of another layer.
C29_DifferentLayerSets ==
    /\ sheets # None
    /\ Len(export_data.data.operations) = 2
    /\ export_data.data.operations[1].affected_country_name
          # export_data.data.operations[2].affected_country_name
    /\ ~C29_DetailCellsHoldResults

\* The detail sheet of two operations of one country holds one column, with
\* the results of the later operation.
C29_SharedCountryName ==
    /\ sheets # None
    /\ Len(export_data.data.operations) = 2
    /\ export_data.data.operations[1].id # export_data.data.operations[2].id
    /\ export_data.data.operations[1].affected_country_name
          = export_data.data.operations[2].affected_country_name
    /\ ~C29_DetailCellsHoldResults

====
